---- MODULE Spec2Model ----
(***************************************************************************)
(* Model of the source scanner of codebase_summary/update_project_summary  *)
(* (class OptimizedProjectSummaryGenerator): the ignore engine, the        *)
(* per-file declaration/breadcrumb analysis, the single-pass tree walk and *)
(* the aggregation of the summary.                                         *)
(*                                                                         *)
(* Python strings are TLA+ strings; Len, SubSeq and \o act on them as on   *)
(* sequences of characters.  Indices of Python lists are kept 0-based in   *)
(* the definitions that translate loops (line i is lines[i + 1]).          *)
(***************************************************************************)
EXTENDS Integers, Sequences, FiniteSets, TLC

\* ------------------------------------------------------------------ bounds
\* longest file (in lines) given to the single-file analysis
MaxLines == 7
\* most lines of a file that are not the filler line
MaxNonBlank == 3
\* most parts of a relative path given to the ignore test
MaxDepth == 3
\* directories of the wide tree
MaxDirs == 11
\* most directories of the wide tree whose file has two declarations
MaxHeavy == 2
\* most files of the large tree
MaxFiles == 101
\* most declarations of the source file of the large tree
MaxDeclarations == 501
\* files of one family of names in the trees of the technology indicators
MaxPerFamily == 21

\* ------------------------------------------------------- string primitives
Max(a, b) == IF a >= b THEN a ELSE b
Min(a, b) == IF a <= b THEN a ELSE b

\* the elements of a list
Range(seq) == { seq[k] : k \in 1..Len(seq) }

\* sum(f[1..n])
RECURSIVE SumTo(_, _)
SumTo(f, n) == IF n = 0 THEN 0 ELSE f[n] + SumTo(f, n - 1)

\* s[i-1:i] with a 1-based i
Ch(s, i) == SubSeq(s, i, i)

\* str.startswith
StartsWith(s, p) == Len(s) >= Len(p) /\ SubSeq(s, 1, Len(p)) = p

\* the `sub in s` test of two strings
StrContains(s, sub) ==
    \E i \in 1..(Len(s) - Len(sub) + 1) : SubSeq(s, i, i + Len(sub) - 1) = sub

UpperChars == "ABCDEFGHIJKLMNOPQRSTUVWXYZ"
LowerChars == "abcdefghijklmnopqrstuvwxyz"

\* the lower-case letter of every upper-case letter
UpperToLower ==
    [c \in { Ch(UpperChars, k) : k \in 1..26 } |->
        Ch(LowerChars, CHOOSE k \in 1..26 : Ch(UpperChars, k) = c)]

LowerCh(c) == IF c \in DOMAIN UpperToLower THEN UpperToLower[c] ELSE c

\* str.lower
RECURSIVE Lower(_)
Lower(s) == IF s = "" THEN "" ELSE LowerCh(Ch(s, 1)) \o Lower(Tail(s))

\* str.rfind('.') as a 1-based index, 0 when there is no dot
LastDot(s) ==
    LET dots == {i \in 1..Len(s) : Ch(s, i) = "."}
    IN  IF dots = {} THEN 0 ELSE CHOOSE i \in dots : \A k \in dots : k <= i

\* PurePath.suffix of a file name
Suffix(name) ==
    LET i == LastDot(name)
    IN  IF 1 < i /\ i < Len(name) THEN SubSeq(name, i, Len(name)) ELSE ""

\* ------------------------------------------------------- pattern catalog
\* self.function_patterns
function_patterns ==
    [ python |-> <<
        "def\\s+([a-z_][a-z0-9_]*)\\s*\\(",
        "async\\s+def\\s+([a-z_][a-z0-9_]*)\\s*\\(",
        "class\\s+([A-Z]\\w*)\\s*[:\\(]" >>,
      javascript |-> <<
        "(?:export\\s+)?(?:async\\s+)?function\\s+([A-Za-z_]\\w*)",
        "(?:export\\s+)?const\\s+([A-Za-z_]\\w*)\\s*=\\s*(?:async\\s+)?\\([^)]*\\)\\s*=>",
        "(?:export\\s+)?const\\s+([A-Za-z_]\\w*)\\s*=\\s*(?:async\\s+)?function",
        "(?:export\\s+)?let\\s+([A-Za-z_]\\w*)\\s*=\\s*(?:async\\s+)?\\([^)]*\\)\\s*=>",
        "(?:export\\s+)?var\\s+([A-Za-z_]\\w*)\\s*=\\s*(?:async\\s+)?function",
        "const\\s+(use[A-Z]\\w*)\\s*=\\s*\\([^)]*\\)\\s*=>",
        "class\\s+([A-Z]\\w*)",
        "\\.([a-zA-Z_]\\w*)\\s*=\\s*(?:async\\s+)?\\([^)]*\\)\\s*=>",
        "router\\.(get|post|put|patch|delete|all)\\s*\\(",
        "app\\.(get|post|put|patch|delete|all)\\s*\\(" >>,
      typescript |-> <<
        "(?:export\\s+)?(?:async\\s+)?function\\s+([A-Za-z_]\\w*)",
        "(?:export\\s+)?const\\s+([A-Za-z_]\\w*)\\s*=\\s*(?:async\\s+)?\\([^)]*\\)\\s*=>",
        "(?:export\\s+)?const\\s+([A-Za-z_]\\w*)\\s*=\\s*(?:async\\s+)?function",
        "(?:export\\s+)?let\\s+([A-Za-z_]\\w*)\\s*=\\s*(?:async\\s+)?\\([^)]*\\)\\s*=>",
        "(?:export\\s+)?var\\s+([A-Za-z_]\\w*)\\s*=\\s*(?:async\\s+)?function",
        "const\\s+(use[A-Z]\\w*)\\s*=\\s*\\([^)]*\\)\\s*=>",
        "class\\s+([A-Z]\\w*)",
        "\\.([a-zA-Z_]\\w*)\\s*=\\s*(?:async\\s+)?\\([^)]*\\)\\s*=>",
        "router\\.(get|post|put|patch|delete|all)\\s*\\(",
        "app\\.(get|post|put|patch|delete|all)\\s*\\(" >>,
      rust |-> <<
        "fn\\s+([a-z_][a-z0-9_]*)\\s*[\\(<]",
        "pub\\s+fn\\s+([a-z_][a-z0-9_]*)\\s*[\\(<]",
        "async\\s+fn\\s+([a-z_][a-z0-9_]*)\\s*[\\(<]",
        "struct\\s+([A-Z]\\w*)",
        "enum\\s+([A-Z]\\w*)",
        "trait\\s+([A-Z]\\w*)" >>,
      c |-> <<
        "(?:static\\s+)?(?:inline\\s+)?(?:\\w+\\s+)*([a-z_][a-z0-9_]*)\\s*\\([^)]*\\)\\s*\\{",
        "(?:extern\\s+)?(?:\\w+\\s+)*([a-z_][a-z0-9_]*)\\s*\\([^)]*\\);" >>,
      cpp |-> <<
        "(?:virtual\\s+)?(?:static\\s+)?(?:inline\\s+)?(?:\\w+\\s+)*([a-z_][a-z0-9_]*)\\s*\\([^)]*\\)\\s*\\{",
        "(?:\\w+\\s+)*([A-Z]\\w*)\\s*::\\s*([a-z_][a-z0-9_]*)\\s*\\(",
        "class\\s+([A-Z]\\w*)",
        "template.*class\\s+([A-Z]\\w*)" >>,
      java |-> <<
        "(?:public\\s+)?(?:private\\s+)?(?:protected\\s+)?(?:static\\s+)?(?:\\w+\\s+)*([a-z][a-zA-Z0-9_]*)\\s*\\([^)]*\\)\\s*\\{",
        "(?:public\\s+)?(?:private\\s+)?(?:protected\\s+)?class\\s+([A-Z]\\w*)",
        "(?:public\\s+)?(?:private\\s+)?(?:protected\\s+)?interface\\s+([A-Z]\\w*)" >>,
      go |-> <<
        "func\\s+([a-z][a-zA-Z0-9_]*)\\s*\\(",
        "func\\s+\\(\\w+\\s+\\*?\\w+\\)\\s+([a-z][a-zA-Z0-9_]*)\\s*\\(",
        "type\\s+([A-Z]\\w*)\\s+(?:struct|interface)" >>,
      swift |-> <<
        "(?:public\\s+)?(?:private\\s+)?(?:internal\\s+)?func\\s+([a-z][a-zA-Z0-9_]*)\\s*\\(",
        "(?:public\\s+)?(?:private\\s+)?(?:internal\\s+)?class\\s+([A-Z]\\w*)",
        "(?:public\\s+)?(?:private\\s+)?(?:internal\\s+)?struct\\s+([A-Z]\\w*)" >>,
      kotlin |-> <<
        "(?:suspend\\s+)?(?:inline\\s+)?fun\\s+([a-z][a-zA-Z0-9_]*)\\s*\\(",
        "(?:data\\s+)?class\\s+([A-Z]\\w*)",
        "(?:sealed\\s+)?interface\\s+([A-Z]\\w*)" >>,
      php |-> <<
        "(?:public\\s+)?(?:private\\s+)?(?:protected\\s+)?function\\s+([a-z_][a-zA-Z0-9_]*)\\s*\\(",
        "class\\s+([A-Z]\\w*)",
        "trait\\s+([A-Z]\\w*)" >>,
      ruby |-> <<
        "def\\s+([a-z_][a-zA-Z0-9_]*[?!]?)",
        "class\\s+([A-Z]\\w*)",
        "module\\s+([A-Z]\\w*)" >>,
      dart |-> <<
        "(?:static\\s+)?(?:async\\s+)?(?:\\w+\\s+)*([a-z][a-zA-Z0-9_]*)\\s*\\([^)]*\\)\\s*(?:async\\s*)?\\{",
        "class\\s+([A-Z]\\w*)",
        "mixin\\s+([A-Z]\\w*)" >>,
      sql |-> <<
        "(?:CREATE\\s+)?(?:OR\\s+REPLACE\\s+)?(?:FUNCTION|PROCEDURE)\\s+([a-z_][a-zA-Z0-9_]*)",
        "CREATE\\s+TRIGGER\\s+([a-z_][a-zA-Z0-9_]*)" >>,
      css |-> <<
        "@function\\s+([a-z-][a-z0-9-]*)",
        "@mixin\\s+([a-z-][a-z0-9-]*)",
        "\\.([a-z-][a-z0-9-]*)\\s*\\{" >>,
      vue |-> <<
        "(?:async\\s+)?([a-z][a-zA-Z0-9_]*)\\s*\\([^)]*\\)\\s*\\{",
        "computed:\\s*\\{",
        "methods:\\s*\\{" >>,
      lua |-> <<
        "function\\s+([a-z_][a-zA-Z0-9_]*)\\s*\\(",
        "local\\s+function\\s+([a-z_][a-zA-Z0-9_]*)\\s*\\(",
        "([a-z_][a-zA-Z0-9_]*)\\s*=\\s*function\\s*\\(" >>,
      scala |-> <<
        "def\\s+([a-z_][a-zA-Z0-9_]*)\\s*[\\(\\[]",
        "class\\s+([A-Z]\\w*)",
        "object\\s+([A-Z]\\w*)",
        "trait\\s+([A-Z]\\w*)" >>,
      clojure |-> <<
        "\\(defn\\s+([a-z-][a-z0-9-]*)",
        "\\(defn-\\s+([a-z-][a-z0-9-]*)",
        "\\(defmacro\\s+([a-z-][a-z0-9-]*)" >>,
      r |-> <<
        "([a-z_][a-zA-Z0-9_\\.]*)\\s*<-\\s*function\\s*\\(",
        "([a-z_][a-zA-Z0-9_\\.]*)\\s*=\\s*function\\s*\\(",
        "function\\s*\\(" >>,
      objc |-> <<
        "-\\s*\\([^)]+\\)\\s*([a-z_][a-zA-Z0-9_]*)",
        "\\+\\s*\\([^)]+\\)\\s*([a-z_][a-zA-Z0-9_]*)",
        "@interface\\s+([A-Z]\\w*)",
        "@implementation\\s+([A-Z]\\w*)" >>,
      csharp |-> <<
        "(?:public\\s+|private\\s+|protected\\s+|internal\\s+)?(?:static\\s+)?(?:virtual\\s+)?(?:override\\s+)?(?:async\\s+)?(?:abstract\\s+)?(?:void|Task(?:<[^>]+>)?|string|int|bool|double|float|decimal|char|byte|short|long|object|var|I?[A-Z]\\w*(?:<[^>]+>)?)\\s+([A-Z][a-zA-Z0-9_]*)\\s*\\([^)]*\\)",
        "(?:public\\s+|private\\s+|protected\\s+|internal\\s+)?(?:static\\s+)?(?:virtual\\s+)?(?:override\\s+)?(?:async\\s+)?(?:abstract\\s+)?(?:void|Task(?:<[^>]+>)?|string|int|bool|double|float|decimal|char|byte|short|long|object|var|I?[A-Z]\\w*(?:<[^>]+>)?)\\s+([a-z][a-zA-Z0-9_]*)\\s*\\([^)]*\\)",
        "^\\s*(?:public\\s+|private\\s+|protected\\s+|internal\\s+)?([A-Z]\\w*)\\s*\\([^)]*\\)\\s*(?::\\s*(?:base|this)\\s*\\([^)]*\\))?\\s*\\{",
        "(?:public\\s+|private\\s+|protected\\s+|internal\\s+)?(?:abstract\\s+|sealed\\s+|static\\s+)?(?:partial\\s+)?class\\s+([A-Z]\\w*)",
        "(?:public\\s+|private\\s+|protected\\s+|internal\\s+)?(?:partial\\s+)?interface\\s+([A-Z]\\w*)" >>,
      shell |-> <<
        "function\\s+([a-z_][a-zA-Z0-9_]*)\\s*\\(",
        "([a-z_][a-zA-Z0-9_]*)\\s*\\(\\s*\\)\\s*\\{",
        "^\\s*([a-z_][a-zA-Z0-9_]*)\\s*\\(\\)\\s*\\{" >>,
      powershell |-> <<
        "function\\s+([A-Za-z][a-zA-Z0-9_-]*)",
        "Filter\\s+([A-Za-z][a-zA-Z0-9_-]*)",
        "([A-Za-z][a-zA-Z0-9_-]*)\\s*=\\s*\\{" >> ]

\* lang_map of _analyze_code_file
lang_map ==
    [ e \in { ".py", ".js", ".jsx", ".ts", ".tsx", ".java", ".go", ".rs", ".c",
              ".cpp", ".cc", ".cxx", ".php", ".rb", ".swift", ".kt", ".dart",
              ".sql", ".css", ".scss", ".sass", ".vue", ".lua", ".scala",
              ".clj", ".cljs", ".r", ".m", ".mm", ".cs", ".sh", ".bash",
              ".zsh", ".ps1" } |->
        CASE e = ".py" -> "python"
          [] e \in {".js", ".jsx"} -> "javascript"
          [] e \in {".ts", ".tsx"} -> "typescript"
          [] e = ".java" -> "java"
          [] e = ".go" -> "go"
          [] e = ".rs" -> "rust"
          [] e = ".c" -> "c"
          [] e \in {".cpp", ".cc", ".cxx"} -> "cpp"
          [] e = ".php" -> "php"
          [] e = ".rb" -> "ruby"
          [] e = ".swift" -> "swift"
          [] e = ".kt" -> "kotlin"
          [] e = ".dart" -> "dart"
          [] e = ".sql" -> "sql"
          [] e \in {".css", ".scss", ".sass"} -> "css"
          [] e = ".vue" -> "vue"
          [] e = ".lua" -> "lua"
          [] e = ".scala" -> "scala"
          [] e \in {".clj", ".cljs"} -> "clojure"
          [] e = ".r" -> "r"
          [] e \in {".m", ".mm"} -> "objc"
          [] e = ".cs" -> "csharp"
          [] e \in {".sh", ".bash", ".zsh"} -> "shell"
          [] e = ".ps1" -> "powershell" ]

\* self.function_patterns.get(lang_map.get(ext, 'javascript'),
\*                            self.function_patterns['javascript'])
PatternsFor(ext) ==
    LET lang == IF ext \in DOMAIN lang_map THEN lang_map[ext] ELSE "javascript"
    IN  IF lang \in DOMAIN function_patterns
        THEN function_patterns[lang]
        ELSE function_patterns["javascript"]

\* number of capture groups of a regular expression: every "(" that is
\* neither escaped nor the start of a (?...) group
CaptureGroups(pattern) ==
    Cardinality({ i \in 1..Len(pattern) :
                    /\ Ch(pattern, i) = "("
                    /\ (i = 1 \/ Ch(pattern, i - 1) # "\\")
                    /\ (i = Len(pattern) \/ Ch(pattern, i + 1) # "?") })

\* re.findall(pattern, line) on the line texts the model's files are made of,
\* tabulated from the re module: one entry per match, each entry the tuple of
\* the groups of that match (a pattern without a group yields the whole match)
FindallTable ==
    { << "def\\s+([a-z_][a-z0-9_]*)\\s*\\(",
         "def f():", << <<"f">> >> >>,
      << "def\\s+([a-z_][a-z0-9_]*)\\s*\\(",
         "def _p():", << <<"_p">> >> >>,
      << "def\\s+([a-z_][a-z0-9_]*)\\s*\\(",
         "async def g():", << <<"g">> >> >>,
      << "def\\s+([a-z_][a-z0-9_]*)\\s*\\(",
         "def foo():", << <<"foo">> >> >>,
      << "def\\s+([a-z_][a-z0-9_]*)\\s*\\(",
         "def bar():", << <<"bar">> >> >>,
      << "async\\s+def\\s+([a-z_][a-z0-9_]*)\\s*\\(",
         "async def g():", << <<"g">> >> >>,
      << "class\\s+([A-Z]\\w*)\\s*[:\\(]",
         "class K:", << <<"K">> >> >>,
      << "(?:export\\s+)?(?:async\\s+)?function\\s+([A-Za-z_]\\w*)",
         "function h() {}", << <<"h">> >> >>,
      << "class\\s+([A-Z]\\w*)",
         "class K:", << <<"K">> >> >>,
      << "(?:static\\s+)?(?:inline\\s+)?(?:\\w+\\s+)*([a-z_][a-z0-9_]*)\\s*\\([^)]*\\)\\s*\\{",
         "void Foo::bar() {", << <<"bar">> >> >>,
      << "(?:static\\s+)?(?:inline\\s+)?(?:\\w+\\s+)*([a-z_][a-z0-9_]*)\\s*\\([^)]*\\)\\s*\\{",
         "function h() {}", << <<"h">> >> >>,
      << "(?:virtual\\s+)?(?:static\\s+)?(?:inline\\s+)?(?:\\w+\\s+)*([a-z_][a-z0-9_]*)\\s*\\([^)]*\\)\\s*\\{",
         "void Foo::bar() {", << <<"bar">> >> >>,
      << "(?:virtual\\s+)?(?:static\\s+)?(?:inline\\s+)?(?:\\w+\\s+)*([a-z_][a-z0-9_]*)\\s*\\([^)]*\\)\\s*\\{",
         "function h() {}", << <<"h">> >> >>,
      << "(?:\\w+\\s+)*([A-Z]\\w*)\\s*::\\s*([a-z_][a-z0-9_]*)\\s*\\(",
         "void Foo::bar() {", << <<"Foo", "bar">> >> >>,
      << "(?:public\\s+)?(?:private\\s+)?(?:protected\\s+)?(?:static\\s+)?(?:\\w+\\s+)*([a-z][a-zA-Z0-9_]*)\\s*\\([^)]*\\)\\s*\\{",
         "void Foo::bar() {", << <<"bar">> >> >>,
      << "(?:public\\s+)?(?:private\\s+)?(?:protected\\s+)?(?:static\\s+)?(?:\\w+\\s+)*([a-z][a-zA-Z0-9_]*)\\s*\\([^)]*\\)\\s*\\{",
         "function h() {}", << <<"h">> >> >>,
      << "(?:public\\s+)?(?:private\\s+)?(?:protected\\s+)?class\\s+([A-Z]\\w*)",
         "class K:", << <<"K">> >> >>,
      << "(?:public\\s+)?(?:private\\s+)?(?:internal\\s+)?class\\s+([A-Z]\\w*)",
         "class K:", << <<"K">> >> >>,
      << "(?:data\\s+)?class\\s+([A-Z]\\w*)",
         "class K:", << <<"K">> >> >>,
      << "(?:public\\s+)?(?:private\\s+)?(?:protected\\s+)?function\\s+([a-z_][a-zA-Z0-9_]*)\\s*\\(",
         "function h() {}", << <<"h">> >> >>,
      << "def\\s+([a-z_][a-zA-Z0-9_]*[?!]?)",
         "def f():", << <<"f">> >> >>,
      << "def\\s+([a-z_][a-zA-Z0-9_]*[?!]?)",
         "def _p():", << <<"_p">> >> >>,
      << "def\\s+([a-z_][a-zA-Z0-9_]*[?!]?)",
         "async def g():", << <<"g">> >> >>,
      << "def\\s+([a-z_][a-zA-Z0-9_]*[?!]?)",
         "def foo():", << <<"foo">> >> >>,
      << "def\\s+([a-z_][a-zA-Z0-9_]*[?!]?)",
         "def bar():", << <<"bar">> >> >>,
      << "(?:static\\s+)?(?:async\\s+)?(?:\\w+\\s+)*([a-z][a-zA-Z0-9_]*)\\s*\\([^)]*\\)\\s*(?:async\\s*)?\\{",
         "void Foo::bar() {", << <<"bar">> >> >>,
      << "(?:static\\s+)?(?:async\\s+)?(?:\\w+\\s+)*([a-z][a-zA-Z0-9_]*)\\s*\\([^)]*\\)\\s*(?:async\\s*)?\\{",
         "function h() {}", << <<"h">> >> >>,
      << "(?:async\\s+)?([a-z][a-zA-Z0-9_]*)\\s*\\([^)]*\\)\\s*\\{",
         "void Foo::bar() {", << <<"bar">> >> >>,
      << "(?:async\\s+)?([a-z][a-zA-Z0-9_]*)\\s*\\([^)]*\\)\\s*\\{",
         "function h() {}", << <<"h">> >> >>,
      << "function\\s+([a-z_][a-zA-Z0-9_]*)\\s*\\(",
         "function h() {}", << <<"h">> >> >>,
      << "def\\s+([a-z_][a-zA-Z0-9_]*)\\s*[\\(\\[]",
         "def f():", << <<"f">> >> >>,
      << "def\\s+([a-z_][a-zA-Z0-9_]*)\\s*[\\(\\[]",
         "def _p():", << <<"_p">> >> >>,
      << "def\\s+([a-z_][a-zA-Z0-9_]*)\\s*[\\(\\[]",
         "async def g():", << <<"g">> >> >>,
      << "def\\s+([a-z_][a-zA-Z0-9_]*)\\s*[\\(\\[]",
         "def foo():", << <<"foo">> >> >>,
      << "def\\s+([a-z_][a-zA-Z0-9_]*)\\s*[\\(\\[]",
         "def bar():", << <<"bar">> >> >>,
      << "(?:public\\s+|private\\s+|protected\\s+|internal\\s+)?(?:abstract\\s+|sealed\\s+|static\\s+)?(?:partial\\s+)?class\\s+([A-Z]\\w*)",
         "class K:", << <<"K">> >> >>,
      << "([a-z_][a-zA-Z0-9_]*)\\s*\\(\\s*\\)\\s*\\{",
         "void Foo::bar() {", << <<"bar">> >> >>,
      << "([a-z_][a-zA-Z0-9_]*)\\s*\\(\\s*\\)\\s*\\{",
         "function h() {}", << <<"h">> >> >>,
      << "function\\s+([A-Za-z][a-zA-Z0-9_-]*)",
         "function h() {}", << <<"h">> >> >> }

ReFindall(pattern, line) ==
    IF \E t \in FindallTable : t[1] = pattern /\ t[2] = line
    THEN (CHOOSE t \in FindallTable : t[1] = pattern /\ t[2] = line)[3]
    ELSE << >>

\* ------------------------------------------------------------------ paths
\* a path is the sequence of its parts (PurePath.parts); an absolute path
\* starts with the part "/"
RECURSIVE JoinSlash(_)
JoinSlash(parts) ==
    IF parts = << >> THEN ""
    ELSE IF Len(parts) = 1 THEN parts[1]
    ELSE parts[1] \o "/" \o JoinSlash(Tail(parts))

\* str(path)
PathStr(parts) ==
    IF parts = << >> THEN "."
    ELSE IF parts[1] = "/" THEN "/" \o JoinSlash(Tail(parts))
    ELSE JoinSlash(parts)

\* PurePath.is_relative_to
IsRelativeTo(path, root) ==
    Len(path) >= Len(root) /\ SubSeq(path, 1, Len(root)) = root

\* PurePath.relative_to, for a path that is relative to root
RelativeTo(path, root) == SubSeq(path, Len(root) + 1, Len(path))

\* ------------------------------------------------------ _analyze_code_file
\* a lookback of 10 lines, as in the older generation of the script
BreadcrumbWindow_Lookback10(lines, i) ==
    Max(0, i - 10) .. (Min(Len(lines), i + 3) - 1)

\* the lines j that are searched for a breadcrumb of a match on line i:
\* range(max(0, i-5), min(len(lines), i+3))
BreadcrumbWindow(lines, i) == Max(0, i - 5) .. (Min(Len(lines), i + 3) - 1)

\* only the line of the match is searched
BreadcrumbFound_SameLineOnly(lines, i) ==
    StrContains(lines[i + 1], "@codebase-summary:")

\* breadcrumb_found after the loop over j
BreadcrumbFound(lines, i) ==
    \E j \in BreadcrumbWindow(lines, i) :
        StrContains(lines[j + 1], "@codebase-summary:")

\* the test without the underscore filter
IsDeclaration_NoUnderscoreTest(match) == match # ""

\* `match and not match.startswith('_')` for a match that is a string
IsDeclaration(match) == match # "" /\ ~StartsWith(match, "_")

\* the loop over j without its `break`: one append per marker line
ProcessMatch_NoBreak(acc, lines, i, pattern, m) ==
    IF acc.raised THEN acc
    ELSE IF CaptureGroups(pattern) > 1 THEN [acc EXCEPT !.raised = TRUE]
    ELSE IF IsDeclaration(m[1])
    THEN LET hits == Cardinality({ j \in BreadcrumbWindow(lines, i) :
                       StrContains(lines[j + 1], "@codebase-summary:") })
         IN  IF hits > 0
             THEN [acc EXCEPT !.functions = Append(@, m[1]),
                              !.documented_functions =
                                  @ \o [k \in 1..hits |-> m[1]]]
             ELSE [acc EXCEPT !.functions = Append(@, m[1]),
                              !.missing_breadcrumbs = Append(@, m[1])]
    ELSE acc

\* the body of `for match in matches`; acc holds the three lists and whether
\* an exception has been raised.  A pattern with more than one group makes
\* re.findall return tuples: a tuple is truthy and has no startswith, so the
\* test raises AttributeError.
ProcessMatch(acc, lines, i, pattern, m) ==
    IF acc.raised THEN acc
    ELSE IF CaptureGroups(pattern) > 1 THEN [acc EXCEPT !.raised = TRUE]
    ELSE IF IsDeclaration(m[1])
    THEN IF BreadcrumbFound(lines, i)
         THEN [acc EXCEPT !.functions = Append(@, m[1]),
                          !.documented_functions = Append(@, m[1])]
         ELSE [acc EXCEPT !.functions = Append(@, m[1]),
                          !.missing_breadcrumbs = Append(@, m[1])]
    ELSE acc

RECURSIVE ForMatches(_, _, _, _, _)
ForMatches(acc, lines, i, pattern, matches) ==
    IF matches = << >> THEN acc
    ELSE ForMatches(ProcessMatch(acc, lines, i, pattern, Head(matches)),
                    lines, i, pattern, Tail(matches))

\* a line counts for the first pattern that records a declaration on it
ForPatterns_OncePerLine(acc, lines, i, patterns) ==
    LET RECURSIVE Once(_, _)
        Once(a, ps) ==
            IF ps = << >> THEN a
            ELSE LET next == ForMatches(a, lines, i, Head(ps),
                                        ReFindall(Head(ps), lines[i + 1]))
                 IN  IF next.raised \/ Len(next.functions) > Len(a.functions)
                     THEN next
                     ELSE Once(next, Tail(ps))
    IN  Once(acc, patterns)

\* `for pattern in patterns` on line i
RECURSIVE ForPatterns(_, _, _, _)
ForPatterns(acc, lines, i, patterns) ==
    IF patterns = << >> THEN acc
    ELSE ForPatterns(ForMatches(acc, lines, i, Head(patterns),
                                ReFindall(Head(patterns), lines[i + 1])),
                     lines, i, Tail(patterns))

\* `for i, line in enumerate(lines)` for the lines lo..hi, in this order (the
\* range is evaluated by halves to keep the evaluation shallow)
RECURSIVE ForLinesIn(_, _, _, _, _)
ForLinesIn(acc, lines, lo, hi, patterns) ==
    IF acc.raised \/ lo > hi THEN acc
    ELSE IF lo = hi THEN ForPatterns(acc, lines, lo, patterns)
    ELSE ForLinesIn(ForLinesIn(acc, lines, lo, (lo + hi) \div 2, patterns),
                    lines, (lo + hi) \div 2 + 1, hi, patterns)

\* `for i, line in enumerate(lines)` from line i on
ForLines(acc, lines, i, patterns) ==
    ForLinesIn(acc, lines, i, Len(lines) - 1, patterns)

\* the local lists of _analyze_code_file when its loops end
AnalyzeLines(ext, lines) ==
    ForLines([functions |-> << >>, documented_functions |-> << >>,
              missing_breadcrumbs |-> << >>, raised |-> FALSE],
             lines, 0, PatternsFor(ext))

\* open() outside the try: a file that cannot be opened raises
AnalyzeCodeFile_OpenRaises(root, path, f) ==
    IF ~f.readable THEN [raised |-> TRUE]
    ELSE LET ext == Lower(Suffix(path[Len(path)]))
             loc == AnalyzeLines(ext, f.lines)
         IN  IF loc.raised THEN [raised |-> TRUE]
             ELSE [raised |-> FALSE,
                   file |-> PathStr(RelativeTo(path, root)),
                   language |-> ext,
                   function_count |-> Len(loc.functions),
                   documented_count |-> Len(loc.documented_functions),
                   functions |-> << >>,
                   missing_breadcrumbs |-> loc.missing_breadcrumbs,
                   lines_of_code |-> Len(f.lines)]

\* _analyze_code_file(file_path) for a file [readable, lines] below root;
\* lines is content.split('\n').  The result is the returned dict, or
\* [raised |-> TRUE] when the exception leaves the function.
AnalyzeCodeFile(root, path, f) ==
    IF ~f.readable
    THEN [raised |-> FALSE, file |-> PathStr(path), functions |-> << >>,
          missing_breadcrumbs |-> << >>, function_count |-> 0,
          documented_count |-> 0]
    ELSE LET ext == Lower(Suffix(path[Len(path)]))
             loc == AnalyzeLines(ext, f.lines)
         IN  IF loc.raised THEN [raised |-> TRUE]
             ELSE [raised |-> FALSE,
                   file |-> PathStr(RelativeTo(path, root)),
                   language |-> ext,
                   function_count |-> Len(loc.functions),
                   documented_count |-> Len(loc.documented_functions),
                   functions |-> << >>,
                   missing_breadcrumbs |-> loc.missing_breadcrumbs,
                   lines_of_code |-> Len(f.lines)]

\* ------------------------------------------------------------ ignore rules
\* default_ignores of _load_ignore_patterns
default_ignores ==
    { ".git", "__pycache__", "node_modules", ".cache", ".vscode", ".idea",
      ".DS_Store", "vendor", "build", "dist", "target", "bin", "obj", "out",
      ".next", ".nuxt", "coverage", "test-results", ".pytest_cache", ".claude",
      ".cursor", ".aider", ".codeium", ".copilot" }

\* the names added to default_ignores in subdirectory mode
arkival_ignores == { "Arkival-V4", "Arkival", "arkival-v4", "arkival" }

Whitespace == { " ", "\t", "\n", "\r" }

\* str.strip
RECURSIVE LStrip(_)
LStrip(s) == IF s # "" /\ Ch(s, 1) \in Whitespace THEN LStrip(Tail(s)) ELSE s
RECURSIVE RStrip(_)
RStrip(s) ==
    IF s # "" /\ Ch(s, Len(s)) \in Whitespace
    THEN RStrip(SubSeq(s, 1, Len(s) - 1)) ELSE s
Strip(s) == RStrip(LStrip(s))

\* str.rstrip('/')
RECURSIVE RStripSlash(_)
RStripSlash(s) ==
    IF s # "" /\ Ch(s, Len(s)) = "/"
    THEN RStripSlash(SubSeq(s, 1, Len(s) - 1)) ELSE s

\* .scanignore on disk: exists is what ignore_file.exists() gives, readable
\* whether open() succeeds, lines the lines of the file, read how many of
\* them `for line in f` yields before it raises (all of them if it does not)
NoIgnoreFile ==
    [exists |-> FALSE, readable |-> FALSE, lines |-> << >>, read |-> 0]

\* a .scanignore of these lines that is read without an error
IgnoreFileOf(lines) ==
    [exists |-> TRUE, readable |-> TRUE, lines |-> lines, read |-> Len(lines)]

\* the lines the loop of _load_ignore_patterns gets to see
LinesRead(ignore_file) ==
    IF ignore_file.exists /\ ignore_file.readable
    THEN SubSeq(ignore_file.lines, 1, ignore_file.read) ELSE << >>

\* the defaults are added after the file, inside the try block
LoadIgnorePatterns_DefaultsLast(mode, ignore_file) ==
    LET scanignore == LinesRead(ignore_file)
        failed == /\ ignore_file.exists
                  /\ (~ignore_file.readable
                        \/ ignore_file.read < Len(ignore_file.lines))
    IN  (IF failed THEN {}
         ELSE default_ignores
                \cup (IF mode = "subdirectory" THEN arkival_ignores ELSE {}))
          \cup { RStripSlash(Strip(scanignore[k])) :
                   k \in { n \in 1..Len(scanignore) :
                             /\ Strip(scanignore[n]) # ""
                             /\ ~StartsWith(Strip(scanignore[n]), "#") } }

\* the test for comment lines is missing
LoadIgnorePatterns_KeepsComments(mode, ignore_file) ==
    LET scanignore == LinesRead(ignore_file)
    IN  default_ignores
          \cup (IF mode = "subdirectory" THEN arkival_ignores ELSE {})
          \cup { RStripSlash(Strip(scanignore[k])) :
                   k \in { n \in 1..Len(scanignore) :
                             Strip(scanignore[n]) # "" } }

\* _load_ignore_patterns: the defaults, the Arkival names in subdirectory
\* mode, and the patterns of the lines of .scanignore that are read; an
\* exception of open() or of the loop is caught and leaves what was added
LoadIgnorePatterns(mode, ignore_file) ==
    LET scanignore == LinesRead(ignore_file)
    IN  default_ignores
          \cup (IF mode = "subdirectory" THEN arkival_ignores ELSE {})
          \cup { RStripSlash(Strip(scanignore[k])) :
                   k \in { n \in 1..Len(scanignore) :
                             /\ Strip(scanignore[n]) # ""
                             /\ ~StartsWith(Strip(scanignore[n]), "#") } }

\* fnmatch.fnmatch(name, pat) on POSIX for patterns made of literal
\* characters, "*" and "?" (translate maps "*" to ".*" and "?" to ".",
\* both matching "/" as well, and anchors the pattern at both ends)
RECURSIVE FnMatch(_, _)
FnMatch(name, pat) ==
    IF pat = "" THEN name = ""
    ELSE IF Ch(pat, 1) = "*"
         THEN FnMatch(name, Tail(pat)) \/ (name # "" /\ FnMatch(Tail(name), pat))
    ELSE IF name = "" THEN FALSE
    ELSE IF Ch(pat, 1) = "?" THEN FnMatch(Tail(name), Tail(pat))
    ELSE Ch(pat, 1) = Ch(name, 1) /\ FnMatch(Tail(name), Tail(pat))

\* str.split('/'), as the set of the pieces
SplitSlash(s) ==
    LET cuts == {0, Len(s) + 1} \cup { i \in 1..Len(s) : Ch(s, i) = "/" }
    IN  { SubSeq(s, a + 1, b - 1) :
            <<a, b>> \in { c \in cuts \X cuts :
                             /\ c[1] < c[2]
                             /\ \A k \in cuts : ~(c[1] < k /\ k < c[2]) } }

\* the test one pattern of the second loop of _should_ignore_path makes
PatternMatches(pattern, path_str) ==
    IF StrContains(pattern, "*") \/ StrContains(pattern, "?")
    THEN FnMatch(path_str, pattern)
    ELSE IF ~StrContains(pattern, "/")
    THEN pattern \in SplitSlash(path_str)
    ELSE StrContains(path_str, pattern)

\* an engine with gitignore negation: a rule "!p" un-ignores what p matches
ShouldIgnorePath_Negation(root, patterns, path) ==
    IF ~IsRelativeTo(path, root) THEN FALSE
    ELSE LET path_str == PathStr(RelativeTo(path, root))
         IN  /\ \/ \E k \in 1..Len(path) : path[k] \in patterns
                \/ \E pattern \in patterns : PatternMatches(pattern, path_str)
             /\ ~ \E pattern \in patterns :
                    /\ StartsWith(pattern, "!")
                    /\ PatternMatches(Tail(pattern), path_str)

\* _should_ignore_path(path) of a generator with the given project_root and
\* ignore_patterns.  Both loops return True at the first hit and nothing in
\* them raises, so the result is the disjunction of the tests.
ShouldIgnorePath(root, patterns, path) ==
    IF ~IsRelativeTo(path, root) THEN FALSE
    ELSE LET path_str == PathStr(RelativeTo(path, root))
         IN  \/ \E k \in 1..Len(path) : path[k] \in patterns
             \/ \E pattern \in patterns : PatternMatches(pattern, path_str)

\* ------------------------------------------------------------- aggregation
\* list[:n]
Take(seq, n) == SubSeq(seq, 1, Min(n, Len(seq)))

\* d[k] += n on a dict d with default 0, as a function
DictAdd(d, k, n) ==
    IF k \in DOMAIN d THEN [d EXCEPT ![k] = @ + n] ELSE d @@ (k :> n)

\* os.path.dirname of a relative path string
Dirname(s) ==
    LET cuts == { i \in 1..Len(s) : Ch(s, i) = "/" }
    IN  IF cuts = {} THEN ""
        ELSE SubSeq(s, 1, (CHOOSE i \in cuts : \A k \in cuts : k <= i) - 1)

\* one step of a stable sort by the second component, larger first: x goes
\* behind every element that is not smaller
RECURSIVE InsertDesc(_, _)
InsertDesc(sorted, x) ==
    IF sorted = << >> THEN << x >>
    ELSE IF Head(sorted)[2] >= x[2]
         THEN << Head(sorted) >> \o InsertDesc(Tail(sorted), x)
         ELSE << x >> \o sorted

\* the sort without reverse=True
SortDesc_Ascending(items) ==
    LET RECURSIVE InsertAsc(_, _)
        InsertAsc(sorted, x) ==
            IF sorted = << >> THEN << x >>
            ELSE IF Head(sorted)[2] <= x[2]
                 THEN << Head(sorted) >> \o InsertAsc(Tail(sorted), x)
                 ELSE << x >> \o sorted
        RECURSIVE Sort(_)
        Sort(seq) ==
            IF seq = << >> THEN << >>
            ELSE InsertAsc(Sort(SubSeq(seq, 1, Len(seq) - 1)), seq[Len(seq)])
    IN  Sort(items)

\* sorted(items, key=lambda x: x[1], reverse=True): stable, so equal counts
\* keep the order they have in items
RECURSIVE SortDesc(_)
SortDesc(items) ==
    IF items = << >> THEN << >>
    ELSE InsertDesc(SortDesc(SubSeq(items, 1, Len(items) - 1)),
                    items[Len(items)])

\* the loop of _summarize_missing_by_dir: dir_counts as the list of its
\* (key, value) items in insertion order
RECURSIVE DirCounts(_)
DirCounts(missing_breadcrumbs) ==
    IF missing_breadcrumbs = << >> THEN << >>
    ELSE LET dc == DirCounts(SubSeq(missing_breadcrumbs, 1,
                                    Len(missing_breadcrumbs) - 1))
             item == missing_breadcrumbs[Len(missing_breadcrumbs)]
             dir_path == Dirname(item.file)
         IN  IF \E k \in 1..Len(dc) : dc[k][1] = dir_path
             THEN [k \in 1..Len(dc) |->
                     IF dc[k][1] = dir_path
                     THEN << dir_path, dc[k][2] + Len(item.missing) >>
                     ELSE dc[k]]
             ELSE Append(dc, << dir_path, Len(item.missing) >>)

\* _summarize_missing_by_dir: the items of the returned dict, in dict order
SummarizeMissingByDir(missing_breadcrumbs) ==
    Take(SortDesc(DirCounts(missing_breadcrumbs)), 10)

\* doc_gaps of _generate_optimized_summary, as (file, undocumented) pairs
DocGaps(missing_breadcrumbs) ==
    LET nonempty == SelectSeq(missing_breadcrumbs,
                              LAMBDA item : Len(item.missing) > 0)
    IN  Take(SortDesc([k \in 1..Len(nonempty) |->
                         << nonempty[k].file, Len(nonempty[k].missing) >>]), 10)

\* the nearest integer to a / b, an exact tie going to the even neighbour
RoundDiv(a, b) ==
    LET q == a \div b
        r == a % b
    IN  IF 2 * r < b THEN q
        ELSE IF 2 * r > b THEN q + 1
        ELSE IF q % 2 = 0 THEN q ELSE q + 1

\* the share of the undocumented declarations instead
CoveragePercentage_OfMissing(documented_functions, total_functions) ==
    RoundDiv((total_functions - documented_functions) * 10000,
             Max(1, total_functions))

\* no declarations counted as full coverage
CoveragePercentage_EmptyIsFull(documented_functions, total_functions) ==
    IF total_functions = 0 THEN 10000
    ELSE RoundDiv(documented_functions * 10000, total_functions)

\* round((documented_functions / max(1, total_functions)) * 100, 2), in
\* hundredths of a percent (5000 is 50.0).  The quotient is rounded to the
\* nearest hundredth as round() does it for every total below 160, where no
\* quotient is close enough to a tie for the float error to matter.
CoveragePercentage(documented_functions, total_functions) ==
    RoundDiv(documented_functions * 10000, Max(1, total_functions))

\* code_analysis of _generate_optimized_summary
CodeAnalysis(sd) ==
    [ total_functions |-> sd.total_functions,
      documented_functions |-> sd.documented_functions,
      language_breakdown |-> sd.language_breakdown,
      documentation_gaps |-> DocGaps(sd.missing_breadcrumbs),
      total_files_analyzed |-> Len(sd.file_analysis),
      total_lines_of_code |->
          SumTo([k \in 1..Len(sd.file_analysis) |->
                    sd.file_analysis[k].lines_of_code], Len(sd.file_analysis)),
      coverage_percentage |->
          CoveragePercentage(sd.documented_functions, sd.total_functions),
      missing_count |-> sd.total_functions - sd.documented_functions,
      missing_breadcrumbs_summary |->
          [ total_missing |-> sd.total_functions - sd.documented_functions,
            by_directory |-> SummarizeMissingByDir(sd.missing_breadcrumbs) ] ]

\* performance_metrics of _generate_optimized_summary
PerformanceMetrics(sd) ==
    [ file_count |-> sd.total_files,
      directory_count |-> Len(sd.directories),
      complexity_score |->
          IF sd.total_functions > 500 THEN "high"
          ELSE IF sd.total_functions > 100 THEN "medium" ELSE "low" ]

\* complexity_score of _analyze_function_hotspots
FunctionHotspots(missing_breadcrumbs) ==
    LET total_missing ==
            SumTo([k \in 1..Len(missing_breadcrumbs) |->
                      Len(missing_breadcrumbs[k].missing)],
                  Len(missing_breadcrumbs))
    IN  [ complexity_score |->
            IF total_missing > 30 THEN "high"
            ELSE IF total_missing > 10 THEN "medium" ELSE "low" ]

\* missing_data of _write_missing_breadcrumbs
MissingData(missing_breadcrumbs, total_funcs, doc_funcs, language_breakdown) ==
    [ summary |->
        [ total_functions |-> total_funcs,
          documented_functions |-> doc_funcs,
          missing_count |-> total_funcs - doc_funcs,
          coverage_percentage |-> CoveragePercentage(doc_funcs, total_funcs) ],
      language_breakdown |-> language_breakdown,
      missing_breadcrumbs |-> missing_breadcrumbs ]

\* -------------------------------------------------------- _single_pass_scan
\* code_extensions
code_extensions ==
    { ".py", ".js", ".jsx", ".ts", ".tsx", ".java", ".go", ".rs", ".c", ".cpp",
      ".cc", ".cxx", ".php", ".rb", ".swift", ".kt", ".dart", ".sql", ".css",
      ".scss", ".sass", ".vue", ".lua", ".scala", ".clj", ".cljs", ".r", ".m",
      ".mm", ".cs", ".sh", ".bash", ".zsh", ".ps1" }

ai_terms ==
    { "ai", "gpt", "claude", "gemini", "llm", "openai", "anthropic", "model" }

\* the if/elif chain of the technology indicators; "" when no branch is taken
TechCategory(name, ext) ==
    IF ext \in { ".py", ".java", ".go", ".rs" } THEN "backend"
    ELSE IF ext \in { ".js", ".jsx", ".ts", ".tsx", ".vue" } THEN "frontend"
    ELSE IF \E t \in ai_terms : StrContains(Lower(name), t)
         THEN "ai_integration"
    ELSE IF ext \in { ".sql", ".db" } THEN "database"
    ELSE IF Lower(name) \in { "dockerfile", ".replit", "docker-compose.yml" }
         THEN "deployment"
    ELSE IF ext \in { ".md", ".txt" } \/ StrContains(Lower(name), "doc")
         THEN "documentation"
    ELSE ""

\* scan_data when _single_pass_scan starts; raised tells that an exception
\* has left the loop, analysed lists the calls of _analyze_code_file
EmptyScanData ==
    [ total_files |-> 0,
      directories |-> << >>,
      file_types |-> << >>,
      technology_indicators |->
          [ frontend |-> << >>, backend |-> << >>, ai_integration |-> << >>,
            database |-> << >>, deployment |-> << >>, documentation |-> << >> ],
      file_analysis |-> << >>,
      total_functions |-> 0,
      documented_functions |-> 0,
      missing_breadcrumbs |-> << >>,
      language_breakdown |-> << >>,
      all_files |-> << >>,
      analysed |-> << >>,
      raised |-> FALSE ]

\* documented_functions grows by the declarations of the file
FoldAnalysis_DocumentedAsTotal(sd, ext, a) ==
    IF a.function_count > 0
    THEN [sd EXCEPT
            !.file_analysis = Append(@, a),
            !.total_functions = @ + a.function_count,
            !.documented_functions = @ + a.function_count,
            !.language_breakdown =
                IF ext \in DOMAIN @
                THEN [@ EXCEPT ![ext] =
                        [files |-> @.files + 1,
                         functions |-> @.functions + a.function_count]]
                ELSE @ @@ (ext :> [files |-> 1, functions |-> a.function_count]),
            !.missing_breadcrumbs =
                IF a.missing_breadcrumbs # << >>
                THEN Append(@, [file |-> a.file, missing |-> a.missing_breadcrumbs])
                ELSE @]
    ELSE sd

\* the `if analysis["function_count"] > 0` block
FoldAnalysis(sd, ext, a) ==
    IF a.function_count > 0
    THEN [sd EXCEPT
            !.file_analysis = Append(@, a),
            !.total_functions = @ + a.function_count,
            !.documented_functions = @ + a.documented_count,
            !.language_breakdown =
                IF ext \in DOMAIN @
                THEN [@ EXCEPT ![ext] =
                        [files |-> @.files + 1,
                         functions |-> @.functions + a.function_count]]
                ELSE @ @@ (ext :> [files |-> 1, functions |-> a.function_count]),
            !.missing_breadcrumbs =
                IF a.missing_breadcrumbs # << >>
                THEN Append(@, [file |-> a.file, missing |-> a.missing_breadcrumbs])
                ELSE @]
    ELSE sd

\* the body of `for file in files` for the file `name` of directory dir
\* (relative parts); tree maps the relative parts of a file to the file
ProcessFile(sd, root, patterns, tree, dir, name) ==
    LET rel == Append(dir, name)
        file_path == root \o rel
        ext == Suffix(name)
        rel_path == PathStr(rel)
        category == TechCategory(name, ext)
        counted ==
            [sd EXCEPT
                !.total_files = @ + 1,
                !.file_types = DictAdd(@, ext, 1),
                !.all_files = Append(@, rel_path),
                !.technology_indicators =
                    IF category = "" THEN @
                    ELSE [@ EXCEPT ![category] = Append(@, rel_path)]]
    IN  IF sd.raised THEN sd
        ELSE IF ShouldIgnorePath(root, patterns, file_path) THEN sd
        ELSE IF ext \notin code_extensions THEN counted
        ELSE LET a == AnalyzeCodeFile(root, file_path, tree[rel])
                 called == [counted EXCEPT !.analysed = Append(@, rel)]
             IN  IF a.raised THEN [called EXCEPT !.raised = TRUE]
                 ELSE FoldAnalysis(called, ext, a)

\* `for file in files` for the files lo..hi of the list, in this order (the
\* range is evaluated by halves to keep the evaluation shallow)
RECURSIVE ProcessFilesIn(_, _, _, _, _, _, _, _)
ProcessFilesIn(sd, root, patterns, tree, dir, files, lo, hi) ==
    IF sd.raised \/ lo > hi THEN sd
    ELSE IF lo = hi THEN ProcessFile(sd, root, patterns, tree, dir, files[lo])
    ELSE ProcessFilesIn(
             ProcessFilesIn(sd, root, patterns, tree, dir, files,
                            lo, (lo + hi) \div 2),
             root, patterns, tree, dir, files, (lo + hi) \div 2 + 1, hi)

\* `for file in files`
ProcessFiles(sd, root, patterns, tree, dir, files) ==
    ProcessFilesIn(sd, root, patterns, tree, dir, files, 1, Len(files))

\* the names of the files (kind "file") or subdirectories (kind "dir") of
\* directory dir in the tree
EntryNames(tree, dir, kind) ==
    { f[Len(dir) + 1] :
        f \in { g \in DOMAIN tree :
                  /\ Len(g) > Len(dir)
                  /\ SubSeq(g, 1, Len(dir)) = dir
                  /\ (kind = "file") = (Len(g) = Len(dir) + 1) } }

\* a list reversed
Reverse(seq) == [k \in 1..Len(seq) |-> seq[Len(seq) + 1 - k]]

\* the names in the order os.scandir lists them: the order of name_order,
\* forwards or backwards
Listed(names, name_order, direction) ==
    LET fwd == SelectSeq(name_order, LAMBDA n : n \in names)
    IN  IF direction = "forward" THEN fwd ELSE Reverse(fwd)

\* the lists are left as long as they are
LimitIndicators_NoLimit(sd) == sd

\* the `for category in ...` truncation after the walk
LimitIndicators(sd) ==
    [sd EXCEPT !.technology_indicators =
        [c \in DOMAIN @ |-> Take(@[c], 20)]]

\* ------------------------------------------------------------------ state
VARIABLES
    pc,               \* position of the operation under way
    deployment_mode,  \* what _detect_deployment_mode returns
    scan_ignore,      \* the file .scanignore of the scan root
    project_root,     \* self.project_root, the parts of an absolute path
    ignore_patterns,  \* self.ignore_patterns
    debug_count,      \* self._debug_count, 0 while the attribute is not set
    file_path,        \* argument of _analyze_code_file (parts)
    file,             \* that file on disk: [readable, lines]
    analysis,         \* what _analyze_code_file returned
    functions,        \* its local list `functions` at the return
    path,             \* argument of _should_ignore_path (parts)
    ignored,          \* what _should_ignore_path returned
    fs,               \* the tree below project_root: relative parts -> file
    listing,          \* the direction os.scandir lists a directory in
    walk,             \* the directories os.walk has still to yield, next first
    walked,           \* the directories os.walk has yielded
    scan_data,        \* scan_data of _single_pass_scan
    summary,          \* the summary written by generate_summary
    missing_data,     \* the dict written by _write_missing_breadcrumbs
    previous,         \* what the scan before this one produced, << >> if none
    now,              \* the wall clock: time.time(), datetime.now()
    summary_file,     \* codebase_summary.json on disk: [exists, version, mtime]
    history_files,    \* the codebase_summary_v*.json files of history_dir
    last_archive,     \* what the archiving of the last run did, and the runs
    config,           \* the settings ClaudeBridge.__init__ reads
    last_request_time,\* self._last_request_time of the bridge
    cache,            \* self._cache of the bridge: key -> entry
    threads,          \* the send_message call of each worker thread
    cli_calls,        \* the subprocess.run calls made, in the order they start
    sent              \* the send_message calls made: their number, the last return

analyzeVars == << file_path, file, analysis, functions >>
ignoreVars == << path, ignored >>
scanVars ==
    << fs, listing, walk, walked, scan_data, summary, missing_data, previous >>
historyVars == << summary_file, history_files, last_archive >>
bridgeVars == << config, last_request_time, cache, threads, cli_calls, sent >>
vars == << pc, deployment_mode, scan_ignore, project_root, ignore_patterns,
           debug_count, analyzeVars, ignoreVars, scanVars, now, historyVars,
           bridgeVars >>

NoFile == [readable |-> FALSE, lines |-> << "" >>]
NoAnalysis == [raised |-> FALSE]
NoSummary == [written |-> FALSE]

\* no call of _analyze_code_file is under way
AnalyzeIdle ==
    /\ file_path = << >>
    /\ file = NoFile
    /\ analysis = NoAnalysis
    /\ functions = << >>

\* no call of _should_ignore_path is under way
IgnoreIdle == path = << >> /\ ignored = FALSE

\* time.time() when the model starts (seconds; any value far from 0)
Epoch == 1000

NoSummaryFile == [exists |-> FALSE, version |-> 0, mtime |-> 0]
NoArchive == [archive |-> "none", removed |-> {}, runs |-> 0]

\* no generate_summary run has touched the history directory
HistoryIdle ==
    /\ now = Epoch
    /\ summary_file = NoSummaryFile
    /\ history_files = {}
    /\ last_archive = NoArchive

\* no bridge has been constructed
BridgeIdle ==
    /\ config = << >>
    /\ last_request_time = 0
    /\ cache = << >>
    /\ threads = << >>
    /\ cli_calls = << >>
    /\ sent = [count |-> 0, last |-> << >>]

\* no scan is under way
ScanIdle ==
    /\ fs = << >>
    /\ listing = "forward"
    /\ walk = << >>
    /\ walked = << >>
    /\ scan_data = EmptyScanData
    /\ summary = NoSummary
    /\ missing_data = NoSummary
    /\ previous = << >>

\* --------------------------------------------- inputs of the file analysis
Filler == "x = 1"

\* the lines other than Filler a file of the given name is made of
NonBlankLines(name) ==
    IF Lower(Suffix(name)) = ".py"
    THEN { "# @codebase-summary: doc", "def f():", "def _p():",
           "async def g():" }
    ELSE { "# @codebase-summary: doc", "void Foo::bar() {", "class K:" }

\* the files of n lines with at most MaxNonBlank lines that are not Filler
LinesOfLength(name, n) ==
    UNION { { [i \in 1..n |-> IF i \in P THEN g[i] ELSE Filler] :
                g \in [P -> NonBlankLines(name)] } :
            P \in { Q \in SUBSET (1..n) : Cardinality(Q) <= MaxNonBlank } }

FileLines(name) == UNION { LinesOfLength(name, n) : n \in 1..MaxLines }

AnalyzedNames == { "m.py", "g.cpp" }

InitAnalyze ==
    /\ pc = "analyze"
    /\ project_root = << "/", "work" >>
    /\ deployment_mode = "development"
    /\ scan_ignore = NoIgnoreFile
    /\ ignore_patterns = LoadIgnorePatterns(deployment_mode, scan_ignore)
    /\ debug_count = 0
    /\ HistoryIdle
    /\ BridgeIdle
    /\ file_path \in { project_root \o << "src", n >> : n \in AnalyzedNames }
    /\ file \in { NoFile } \cup
                { [readable |-> TRUE, lines |-> l] :
                    l \in FileLines(file_path[Len(file_path)]) }
    /\ analysis = NoAnalysis
    /\ functions = << >>
    /\ IgnoreIdle
    /\ ScanIdle

\* one call of _analyze_code_file
AnalyzeCall ==
    /\ pc = "analyze"
    /\ LET r == AnalyzeCodeFile(project_root, file_path, file)
           ext == Lower(Suffix(file_path[Len(file_path)]))
       IN  /\ analysis' = r
           /\ functions' = IF file.readable /\ ~r.raised
                           THEN AnalyzeLines(ext, file.lines).functions
                           ELSE << >>
           /\ pc' = IF r.raised THEN "raised" ELSE "returned"
    /\ UNCHANGED << now, historyVars, bridgeVars,
                    deployment_mode, scan_ignore, project_root,
                    ignore_patterns, debug_count, file_path,
                    file, ignoreVars, scanVars >>

NextAnalyze == AnalyzeCall

SpecAnalyze == InitAnalyze /\ [][NextAnalyze]_vars

\* ------------------------------------------------ inputs of the ignore test
ProjectRoots == { << "/", "work" >>, << "/", "home", "build", "work" >> }

PathNames == { "src", "gen", "node_modules", "m.py", "g.cpp" }

RECURSIVE PathsOfLength(_)
PathsOfLength(n) ==
    IF n = 0 THEN { << >> }
    ELSE { Append(q, name) : q \in PathsOfLength(n - 1), name \in PathNames }

RelPaths == UNION { PathsOfLength(n) : n \in 0..MaxDepth }

\* the lines a .scanignore is made of
ScanIgnoreLines ==
    << "# local rules", "gen/", "src/gen", "*.cpp", "", "  g?n  ", "!src" >>

\* the files that hold consecutive lines of ScanIgnoreLines, none to all
ScanIgnoreFiles ==
    { SubSeq(ScanIgnoreLines, a, b) :
        a \in 1..Len(ScanIgnoreLines), b \in 0..Len(ScanIgnoreLines) }

DeploymentModes == { "development", "subdirectory" }

InitIgnore ==
    /\ pc = "ignore"
    /\ project_root \in ProjectRoots
    /\ deployment_mode \in DeploymentModes
    /\ scan_ignore \in { IgnoreFileOf(f) : f \in ScanIgnoreFiles }
    /\ ignore_patterns = LoadIgnorePatterns(deployment_mode, scan_ignore)
    /\ debug_count = 0
    /\ HistoryIdle
    /\ BridgeIdle
    /\ path \in { project_root \o rel : rel \in RelPaths }
    /\ ignored = FALSE
    /\ AnalyzeIdle
    /\ ScanIdle

\* one call of _should_ignore_path
ShouldIgnoreCall ==
    /\ pc = "ignore"
    /\ ignored' = ShouldIgnorePath(project_root, ignore_patterns, path)
    /\ debug_count' = IF IsRelativeTo(path, project_root)
                      THEN debug_count + 1 ELSE debug_count
    /\ pc' = "decided"
    /\ UNCHANGED << now, historyVars, bridgeVars,
                    deployment_mode, scan_ignore, project_root,
                    ignore_patterns, path, analyzeVars,
                    scanVars >>

NextIgnore == ShouldIgnoreCall

SpecIgnore == InitIgnore /\ [][NextIgnore]_vars

\* ------------------------------------------------------- generate_summary
\* one iteration of `for root, dirs, files in os.walk(self.project_root)` on
\* st = [walk, walked, scan_data, debug_count]: the directory at the head of walk is
\* yielded; unless it is ignored its subdirectories are pruned and its files
\* processed; os.walk then descends into what is left of dirs before it goes
\* on with the rest of walk.
WalkStep(root, patterns, tree, name_order, direction, st) ==
    LET dir == Head(st.walk)
        root_path == root \o dir
        dirs == Listed(EntryNames(tree, dir, "dir"), name_order, direction)
        files == Listed(EntryNames(tree, dir, "file"), name_order, direction)
        skip == ShouldIgnorePath(root, patterns, root_path)
        kept == SelectSeq(dirs, LAMBDA d :
                  ~ShouldIgnorePath(root, patterns, Append(root_path, d)))
        descend == IF skip THEN dirs ELSE kept
        listed == IF dir # << >>
                  THEN [st.scan_data EXCEPT
                          !.directories = Append(@, PathStr(dir))]
                  ELSE st.scan_data
        sd == IF skip THEN st.scan_data
              ELSE ProcessFiles(listed, root, patterns, tree, dir, files)
        \* the files the loop gets to: all of them unless one raises
        reached == IF sd.raised
                   THEN { k \in 1..Len(files) :
                            ~ProcessFiles(listed, root, patterns, tree, dir,
                                          SubSeq(files, 1, k - 1)).raised }
                   ELSE 1..Len(files)
    IN  [ walk |-> IF sd.raised THEN << >>
                   ELSE [k \in 1..Len(descend) |-> Append(dir, descend[k])]
                          \o Tail(st.walk),
          walked |-> Append(st.walked, dir),
          scan_data |-> sd,
          debug_count |->
              st.debug_count + 1 +
              (IF skip THEN 0 ELSE Len(dirs) + Cardinality(reached)) ]

\* the whole loop over os.walk, from st on
RECURSIVE RunWalk(_, _, _, _, _, _)
RunWalk(root, patterns, tree, name_order, direction, st) ==
    IF st.walk = << >> THEN st
    ELSE RunWalk(root, patterns, tree, name_order, direction,
                 WalkStep(root, patterns, tree, name_order, direction, st))

\* One iteration of the loop of _single_pass_scan.  An exception from
\* _analyze_code_file leaves _single_pass_scan and is caught by
\* generate_summary, which returns False without writing anything.
WalkDir(name_order) ==
    /\ pc = "walk"
    /\ walk # << >>
    /\ LET st == WalkStep(project_root, ignore_patterns, fs, name_order,
                          listing,
                          [walk |-> walk, walked |-> walked,
                           scan_data |-> scan_data,
                           debug_count |-> debug_count])
       IN  /\ walk' = st.walk
           /\ debug_count' = st.debug_count
           /\ walked' = st.walked
           /\ scan_data' = st.scan_data
           /\ pc' = IF st.scan_data.raised THEN "failed" ELSE "walk"
    /\ UNCHANGED << now, historyVars, bridgeVars,
                    deployment_mode, scan_ignore, project_root,
                    ignore_patterns, analyzeVars, ignoreVars,
                    fs, listing, summary, missing_data, previous >>

\* the summary of _generate_optimized_summary, the parts computed from the
\* scan, for the scan_data the loop ends with
Summary(scan_end) ==
    LET sd == LimitIndicators(scan_end)
    IN  [ written |-> TRUE,
          project_structure |->
            [ total_files |-> sd.total_files,
              directories |-> sd.directories,
              file_types |-> sd.file_types,
              technology_indicators |-> sd.technology_indicators ],
          code_analysis |-> CodeAnalysis(sd),
          function_hotspots |-> FunctionHotspots(sd.missing_breadcrumbs),
          performance_metrics |-> PerformanceMetrics(sd) ]

\* the rest of generate_summary once os.walk is exhausted: the end of
\* _single_pass_scan, _generate_optimized_summary and
\* _write_missing_breadcrumbs
Finish ==
    /\ pc = "walk"
    /\ walk = << >>
    /\ scan_data' = LimitIndicators(scan_data)
    /\ summary' = Summary(scan_data)
    /\ missing_data' =
         [ written |-> TRUE ] @@
         MissingData(scan_data.missing_breadcrumbs,
                     Summary(scan_data).code_analysis.total_functions,
                     Summary(scan_data).code_analysis.documented_functions,
                     Summary(scan_data).code_analysis.language_breakdown)
    /\ pc' = "done"
    /\ UNCHANGED << now, historyVars, bridgeVars,
                    deployment_mode, scan_ignore, project_root,
                    ignore_patterns, debug_count, analyzeVars,
                    ignoreVars, fs, listing, walk, walked, previous >>

\* the second scan goes on with the scan_data of the first
ScanAgain_KeepsScanData ==
    /\ pc = "done"
    /\ previous = << >>
    /\ previous' = [ scan_data |-> scan_data, summary |-> summary,
                     missing_data |-> missing_data ]
    /\ walk' = << << >> >>
    /\ walked' = << >>
    /\ pc' = "walk"
    /\ UNCHANGED << now, historyVars, bridgeVars,
                    deployment_mode, scan_ignore, project_root,
                    ignore_patterns, debug_count, analyzeVars,
                    ignoreVars, fs, listing, scan_data, summary,
                    missing_data >>

\* the scan is run again by the same generator on the tree as it was (fs
\* does not hold the reports generate_summary writes): _single_pass_scan
\* builds a new scan_data, self._debug_count stays
ScanAgain ==
    /\ pc = "done"
    /\ previous = << >>
    /\ previous' = [ scan_data |-> scan_data, summary |-> summary,
                     missing_data |-> missing_data ]
    /\ walk' = << << >> >>
    /\ walked' = << >>
    /\ scan_data' = EmptyScanData
    /\ pc' = "walk"
    /\ UNCHANGED << now, historyVars, bridgeVars,
                    deployment_mode, scan_ignore, project_root,
                    ignore_patterns, debug_count, analyzeVars,
                    ignoreVars, fs, listing, summary, missing_data >>

\* ------------------------------------------------- inputs of the tree scan
\* the order os.scandir lists names in, before the direction is applied
SmallNameOrder ==
    << ".scanignore", "README.md", "a.py", "gen", "g.cpp", "src", "m.py",
       "node_modules", "x.py", "d", "y.py" >>

PyFiles ==
    { NoFile } \cup
    { [readable |-> TRUE, lines |-> l] :
        l \in { << "x = 1" >>,
                << "def f():" >>,
                << "# @codebase-summary: doc", "def f():" >>,
                << "async def g():", "def _p():" >> } }

CppFiles ==
    { [readable |-> TRUE, lines |-> l] :
        l \in { << "x = 1" >>, << "class K:" >>, << "void Foo::bar() {" >> } }

\* the trees of the scan: a file at the root, a source directory with a
\* dependency directory in it, and a directory of generated code
SmallTrees ==
    { ( << "a.py" >> :> a ) @@ ( << "src", "m.py" >> :> m ) @@
      ( << "gen", "g.cpp" >> :> g ) @@
      ( << "README.md" >> :> [readable |-> TRUE, lines |-> << "notes" >>] ) @@
      ( << "src", "node_modules", "x.py" >> :>
            [readable |-> TRUE, lines |-> << "def f():" >>] ) @@
      ( << "src", "node_modules", "d", "y.py" >> :>
            [readable |-> TRUE, lines |-> << "def f():" >>] ) :
      a \in PyFiles, m \in PyFiles, g \in CppFiles }

\* the files .scanignore of the scans (the rule of "./" is ".", which is
\* the relative path of the scan root itself)
ScanRuleFiles ==
    { << "# local rules", "gen/" >>, << "  g?n  " >>, << "*.cpp", "!src" >>,
      << "./" >> }

\* .scanignore is a file of the scan root, listed by os.walk like any other
TreeWithIgnoreFile(tree, ignore_file) ==
    IF ignore_file.exists
    THEN tree @@ ( << ".scanignore" >> :>
                     [readable |-> ignore_file.readable,
                      lines |-> ignore_file.lines] )
    ELSE tree

Init ==
    /\ pc = "walk"
    /\ project_root \in ProjectRoots
    /\ deployment_mode = "development"
    /\ scan_ignore \in
         { NoIgnoreFile } \cup { IgnoreFileOf(f) : f \in ScanRuleFiles }
    /\ ignore_patterns = LoadIgnorePatterns(deployment_mode, scan_ignore)
    /\ fs \in { TreeWithIgnoreFile(t, scan_ignore) : t \in SmallTrees }
    /\ listing \in { "forward", "backward" }
    /\ walk = << << >> >>
    /\ walked = << >>
    /\ scan_data = EmptyScanData
    /\ summary = NoSummary
    /\ missing_data = NoSummary
    /\ previous = << >>
    /\ debug_count = 0
    /\ HistoryIdle
    /\ BridgeIdle
    /\ AnalyzeIdle
    /\ IgnoreIdle

WalkSmall == WalkDir(SmallNameOrder)

Next == WalkSmall \/ Finish \/ ScanAgain

Spec == Init /\ [][Next]_vars

\* ------------------------------------------------ inputs of the wide scan
\* the name of the k-th directory of the wide tree
DirName(k) == "d" \o Ch(LowerChars, k)

WideNameOrder == [k \in 1..MaxDirs |-> DirName(k)] \o << "f.py" >>

\* a file with one and a file with two undocumented declarations
LightFile == [readable |-> TRUE, lines |-> << "def f():" >>]
HeavyFile == [readable |-> TRUE, lines |-> << "async def g():" >>]

\* MaxDirs directories below the root with one python file each, the files
\* of at most MaxHeavy neighbouring directories with two declarations
WideTrees ==
    { [p \in { << DirName(k), "f.py" >> : k \in 1..MaxDirs } |->
         IF \E k \in a..(a + h - 1) : DirName(k) = p[1]
         THEN HeavyFile ELSE LightFile] :
      a \in 1..MaxDirs, h \in 0..MaxHeavy }

InitWide ==
    /\ pc = "walk"
    /\ project_root = << "/", "work" >>
    /\ deployment_mode = "development"
    /\ scan_ignore = NoIgnoreFile
    /\ ignore_patterns = LoadIgnorePatterns(deployment_mode, scan_ignore)
    /\ fs \in WideTrees
    /\ listing \in { "forward", "backward" }
    /\ walk = << << >> >>
    /\ walked = << >>
    /\ scan_data = EmptyScanData
    /\ summary = NoSummary
    /\ missing_data = NoSummary
    /\ previous = << >>
    /\ debug_count = 0
    /\ HistoryIdle
    /\ BridgeIdle
    /\ AnalyzeIdle
    /\ IgnoreIdle

WalkWide == WalkDir(WideNameOrder)

NextWide == WalkWide \/ Finish

SpecWide == InitWide /\ [][NextWide]_vars

\* ----------------------------------------------- inputs of the large scan
\* the k-th text file of the large tree
TextName(k) == "t" \o ToString(k) \o ".txt"

LargeNameOrder == << "big.py" >> \o [k \in 1..MaxFiles |-> TextName(k)]

FileCounts == { 1, 19, 20, 100, MaxFiles }

DeclarationCounts == { 0, 49, 50, 100, 101, 500, MaxDeclarations }

\* a python file of m undocumented declarations
SourceOf(m) ==
    [ readable |-> TRUE,
      lines |-> IF m = 0 THEN << Filler >> ELSE [k \in 1..m |-> "def f():"] ]

\* the trees of n files at the root: big.py, with m declarations, and n - 1
\* text files
LargeTrees ==
    { [p \in { << "big.py" >> } \cup { << TextName(k) >> : k \in 1..(n - 1) } |->
         IF p = << "big.py" >> THEN SourceOf(m)
         ELSE [readable |-> TRUE, lines |-> << "notes" >>]] :
      n \in FileCounts, m \in DeclarationCounts }

InitLarge ==
    /\ pc = "walk"
    /\ project_root = << "/", "work" >>
    /\ deployment_mode = "development"
    /\ scan_ignore = NoIgnoreFile
    /\ ignore_patterns = LoadIgnorePatterns(deployment_mode, scan_ignore)
    /\ fs \in LargeTrees
    /\ listing \in { "forward", "backward" }
    /\ walk = << << >> >>
    /\ walked = << >>
    /\ scan_data = EmptyScanData
    /\ summary = NoSummary
    /\ missing_data = NoSummary
    /\ previous = << >>
    /\ debug_count = 0
    /\ HistoryIdle
    /\ BridgeIdle
    /\ AnalyzeIdle
    /\ IgnoreIdle

WalkLarge == WalkDir(LargeNameOrder)

NextLarge == WalkLarge \/ Finish

SpecLarge == InitLarge /\ [][NextLarge]_vars

\* ------------------------------------------------ inputs of the flat scan
FlatNameOrder == << "a.py", "b.PY", "b.py", "c.xyz", "d.py" >>

\* the size in bytes of a content of these lines
ByteSize(lines) ==
    SumTo([k \in 1..Len(lines) |-> Len(lines[k])], Len(lines)) + Len(lines) - 1

\* a readable file of these lines; size is what os.path.getsize gives
FileOf(lines) == [readable |-> TRUE, lines |-> lines, size |-> ByteSize(lines)]

\* a file of 6 MB with a declaration on its first line; of its content only
\* that line is kept
BigFile ==
    [readable |-> TRUE, lines |-> << "def f():" >>, size |-> 6 * 1024 * 1024]

FlatNames == { "a.py", "b.PY", "c.xyz", "d.py" }

\* what the file of each name can be; << >> when the tree has no such file
FlatFiles(name) ==
    CASE name = "a.py" ->
           { << >>, NoFile,
             FileOf(<< "# @codebase-summary: doc", "def foo():" >>),
             FileOf(<< "def bar():" >>) }
      [] name = "b.PY" -> { << >>, FileOf(<< "def bar():" >>) }
      [] name = "c.xyz" -> { << >>, FileOf(<< "function h() {}" >>) }
      [] name = "d.py" -> { << >>, FileOf(<< "def bar():" >>), BigFile }

\* the trees with files at the root only, the empty tree among them
FlatTrees ==
    { [p \in { << n >> : n \in { m \in DOMAIN c : c[m] # << >> } } |->
          c[p[1]]] :
      c \in { e \in [FlatNames -> UNION { FlatFiles(n) : n \in FlatNames }] :
                 \A n \in FlatNames : e[n] \in FlatFiles(n) } }

InitFlat ==
    /\ pc = "walk"
    /\ project_root = << "/", "work" >>
    /\ deployment_mode = "development"
    /\ scan_ignore = NoIgnoreFile
    /\ ignore_patterns = LoadIgnorePatterns(deployment_mode, scan_ignore)
    /\ fs \in FlatTrees
    /\ listing \in { "forward", "backward" }
    /\ walk = << << >> >>
    /\ walked = << >>
    /\ scan_data = EmptyScanData
    /\ summary = NoSummary
    /\ missing_data = NoSummary
    /\ previous = << >>
    /\ debug_count = 0
    /\ HistoryIdle
    /\ BridgeIdle
    /\ AnalyzeIdle
    /\ IgnoreIdle

WalkFlat == WalkDir(FlatNameOrder)

NextFlat == WalkFlat \/ Finish

SpecFlat == InitFlat /\ [][NextFlat]_vars

\* --------------------------------- trees of the technology indicators
\* the k-th file name of a family: model<k>.py is a backend extension and
\* holds an AI term, gpt<k>.md holds an AI term and is a documentation
\* extension, doc<k>.sql is a database extension and holds "doc"
FamilyName(family, k) ==
    CASE family = "model" -> "model" \o ToString(k) \o ".py"
      [] family = "gpt" -> "gpt" \o ToString(k) \o ".md"
      [] family = "doc" -> "doc" \o ToString(k) \o ".sql"

Families == << "model", "gpt", "doc" >>

FamilyCounts == { 0, 1, MaxPerFamily - 1, MaxPerFamily }

TechNameOrder ==
    << "Dockerfile", "app.js" >>
      \o [k \in 1..MaxPerFamily |-> FamilyName("model", k)]
      \o [k \in 1..MaxPerFamily |-> FamilyName("gpt", k)]
      \o [k \in 1..MaxPerFamily |-> FamilyName("doc", k)]

\* the flat trees with Dockerfile, app.js and n[i] files of the i-th family
TechTrees ==
    { [p \in { << "Dockerfile" >>, << "app.js" >> }
              \cup UNION { { << FamilyName(Families[i], k) >> : k \in 1..n[i] } :
                           i \in 1..Len(Families) } |->
         [readable |-> TRUE, lines |-> << Filler >>]] :
      n \in [1..Len(Families) -> FamilyCounts] }

InitTech ==
    /\ pc = "walk"
    /\ project_root = << "/", "work" >>
    /\ deployment_mode = "development"
    /\ scan_ignore = NoIgnoreFile
    /\ ignore_patterns = LoadIgnorePatterns(deployment_mode, scan_ignore)
    /\ fs \in TechTrees
    /\ listing \in { "forward", "backward" }
    /\ walk = << << >> >>
    /\ walked = << >>
    /\ scan_data = EmptyScanData
    /\ summary = NoSummary
    /\ missing_data = NoSummary
    /\ previous = << >>
    /\ debug_count = 0
    /\ HistoryIdle
    /\ BridgeIdle
    /\ AnalyzeIdle
    /\ IgnoreIdle

WalkTech == WalkDir(TechNameOrder)

NextTech == WalkTech \/ Finish

SpecTech == InitTech /\ [][NextTech]_vars

\* ------------------------------------------------- loading of .scanignore

\* a .scanignore that exists and cannot be opened (a directory, a dangling
\* link, a file without read permission)
UnopenableIgnoreFile ==
    [exists |-> TRUE, readable |-> FALSE, lines |-> << >>, read |-> 0]

\* the states of .scanignore: absent, unopenable, or holding consecutive
\* lines of ScanIgnoreLines of which the first `read` are decoded (fewer
\* than all when a later line holds a byte that is not UTF-8)
IgnoreFilesOnDisk ==
    { NoIgnoreFile, UnopenableIgnoreFile }
      \cup UNION { { [exists |-> TRUE, readable |-> TRUE,
                       lines |-> f, read |-> r] : r \in 0..Len(f) } :
                     f \in ScanIgnoreFiles }

InitLoad ==
    /\ pc = "load"
    /\ deployment_mode \in DeploymentModes
    /\ scan_ignore \in IgnoreFilesOnDisk
    /\ project_root \in { << "/", "work" >>, << "/", "build", "work" >> }
    /\ ignore_patterns = {}
    /\ debug_count = 0
    /\ HistoryIdle
    /\ BridgeIdle
    /\ AnalyzeIdle
    /\ IgnoreIdle
    /\ ScanIdle

\* __init__: self.ignore_patterns = self._load_ignore_patterns()
LoadIgnorePatternsCall ==
    /\ pc = "load"
    /\ ignore_patterns' = LoadIgnorePatterns(deployment_mode, scan_ignore)
    /\ pc' = "loaded"
    /\ UNCHANGED << now, historyVars, bridgeVars,
                    deployment_mode, scan_ignore, project_root, debug_count,
                    analyzeVars, ignoreVars, scanVars >>

NextLoad == LoadIgnorePatternsCall

SpecLoad == InitLoad /\ [][NextLoad]_vars

\* ================================================================== claims
\* the extension and the lines of the analysed file
AnalyzedExt == Lower(Suffix(file_path[Len(file_path)]))

\* C2: for every file _analyze_code_file returns for, the failed-open path
\* included, every identifier of missing_breadcrumbs is one of the recorded
\* declarations and documented_count + len(missing_breadcrumbs) equals
\* function_count.
C2_MissingWithinDeclarations ==
    pc = "returned" =>
        /\ Range(analysis.missing_breadcrumbs) \subseteq Range(functions)
        /\ analysis.function_count = Len(functions)
        /\ analysis.documented_count + Len(analysis.missing_breadcrumbs)
             = analysis.function_count

\* a file with a documented and an undocumented declaration was analysed
C2_Witness ==
    /\ pc = "returned"
    /\ analysis.documented_count > 0
    /\ Len(analysis.missing_breadcrumbs) > 0

\* the number of matches on line i (0-based) that are recorded as declarations
DeclarationsOnLine(i) ==
    LET patterns == PatternsFor(AnalyzedExt)
        n == [k \in 1..Len(patterns) |->
                Cardinality({ q \in 1..Len(ReFindall(patterns[k], file.lines[i + 1])) :
                    IsDeclaration(ReFindall(patterns[k], file.lines[i + 1])[q][1]) })]
    IN  SumTo(n, Len(patterns))

\* some line j with max(0, i-5) <= j <= min(len(lines)-1, i+2) holds the marker
MarkerNear(i) ==
    \E j \in 0..(Len(file.lines) - 1) :
        /\ i - 5 <= j
        /\ j <= i + 2
        /\ StrContains(file.lines[j + 1], "@codebase-summary:")

\* C5: a declaration matched at line i is counted as documented if and only
\* if a line j with max(0, i-5) <= j <= min(len(lines)-1, i+2) contains the
\* marker; a marker more than 5 lines above does not document it and the
\* window does not wrap around the ends of the file.
C5_DocumentedIffMarkerInWindow ==
    (pc = "returned" /\ file.readable) =>
        LET n == Len(file.lines)
            doc == [k \in 1..n |->
                      IF MarkerNear(k - 1) THEN DeclarationsOnLine(k - 1) ELSE 0]
            mis == [k \in 1..n |->
                      IF MarkerNear(k - 1) THEN 0 ELSE DeclarationsOnLine(k - 1)]
        IN  /\ analysis.documented_count = SumTo(doc, n)
            /\ Len(analysis.missing_breadcrumbs) = SumTo(mis, n)

\* a declaration whose only marker is 6 lines above it, and is not documented
C5_Witness ==
    /\ pc = "returned"
    /\ file.readable
    /\ \E i \in 7..Len(file.lines) :
          /\ file.lines[i] = "def f():"
          /\ file.lines[i - 6] = "# @codebase-summary: doc"
          /\ \A k \in 1..Len(file.lines) :
                k \notin {i, i - 6} => file.lines[k] = Filler
    /\ analysis.function_count = 1
    /\ analysis.documented_count = 0

\* the file with every line "def _p():" replaced by the filler line
WithoutPrivate ==
    [file EXCEPT !.lines = [k \in 1..Len(file.lines) |->
        IF file.lines[k] = "def _p():" THEN Filler ELSE file.lines[k]]]

\* C6: an identifier that begins with "_" is never recorded as a declaration:
\* it is in none of the lists and the analysis of the file is the one the file
\* would get without the lines that declare it.
C6_UnderscoreNeverRecorded ==
    (pc = "returned" /\ file.readable) =>
        /\ \A name \in Range(functions) \cup Range(analysis.missing_breadcrumbs) :
              ~StartsWith(name, "_")
        /\ analysis = AnalyzeCodeFile(project_root, file_path, WithoutPrivate)

\* a file with a private and a counted declaration was analysed
C6_Witness ==
    /\ pc = "returned"
    /\ file.readable
    /\ "def _p():" \in Range(file.lines)
    /\ "def f():" \in Range(file.lines)
    /\ analysis.function_count = 1

\* the path relative to the scan root
RelPath == RelativeTo(path, project_root)

IsGlob(rule) == StrContains(rule, "*") \/ StrContains(rule, "?")

\* C7: _should_ignore_path returns true exactly when a segment of the path
\* relative to the scan root equals a literal rule, or a rule with "*" or "?"
\* glob-matches the relative path string, or a non-glob rule with "/" is a
\* substring of the relative path string.
C7_IgnoredIffRelativeRuleMatches ==
    pc = "decided" =>
        (ignored <=>
            \/ \E k \in 1..Len(RelPath) :
                  RelPath[k] \in { r \in ignore_patterns : ~IsGlob(r) }
            \/ \E r \in ignore_patterns :
                  IsGlob(r) /\ FnMatch(PathStr(RelPath), r)
            \/ \E r \in ignore_patterns :
                  /\ ~IsGlob(r)
                  /\ StrContains(r, "/")
                  /\ StrContains(PathStr(RelPath), r))

\* the patterns a .scanignore of the model can add
CustomPatterns ==
    LoadIgnorePatterns("development", IgnoreFileOf(ScanIgnoreLines))
        \ default_ignores

\* C8: a path ignored under a rule set is ignored under every rule set that
\* contains it: adding patterns, whatever their text, never un-ignores a path.
C8_IgnoreMonotoneInRules ==
    (pc = "decided" /\ ignored) =>
        \A extra \in SUBSET CustomPatterns :
            ShouldIgnorePath(project_root, ignore_patterns \cup extra, path)

\* an ignored path below src, under rules without the pattern "!src"
C8_Witness ==
    /\ pc = "decided"
    /\ ignored
    /\ project_root = << "/", "work" >>
    /\ "!src" \notin ignore_patterns
    /\ Len(RelPath) > 1
    /\ RelPath[1] = "src"

\* the state _single_pass_scan starts its loop in
WalkStart ==
    [ walk |-> << << >> >>, walked |-> << >>, scan_data |-> EmptyScanData,
      debug_count |-> 0 ]

\* C1: the reported coverage_percentage (in the summary and in the missing
\* breadcrumbs file) lies in [0, 100]; it is
\* round(documented_functions / total_functions * 100, 2) when
\* total_functions > 0 and exactly 0.0 when total_functions = 0.
C1_CoverageRoundedAndInRange ==
    pc = "done" =>
        LET total == summary.code_analysis.total_functions
            documented == summary.code_analysis.documented_functions
        IN  \A c \in { summary.code_analysis.coverage_percentage,
                       missing_data.summary.coverage_percentage } :
                /\ 0 <= c
                /\ c <= 10000
                /\ total > 0 => c = RoundDiv(documented * 10000, total)
                /\ total = 0 => c = 0

\* a scan that found one documented declaration out of three: 33.33
C1_Witness ==
    /\ pc = "done"
    /\ summary.code_analysis.total_functions = 3
    /\ summary.code_analysis.documented_functions = 1
    /\ summary.code_analysis.coverage_percentage = 3333
    /\ missing_data.summary.coverage_percentage = 3333

\* the directories of the tree below the root
TreeDirs ==
    { SubSeq(f, 1, n) : <<f, n>> \in
        { q \in (DOMAIN fs) \X (1..MaxDepth + 1) : q[2] < Len(q[1]) } }

\* the directories that match an ignore rule
RuleDirs ==
    { d \in TreeDirs :
        ShouldIgnorePath(project_root, ignore_patterns, project_root \o d) }

\* p is located beneath a directory that matches an ignore rule
BeneathRuleDir(p) ==
    \E d \in RuleDirs : Len(p) > Len(d) /\ SubSeq(p, 1, Len(d)) = d

\* the tree without the files beneath a directory that matches a rule
PrunedTree == [f \in { g \in DOMAIN fs : ~BeneathRuleDir(g) } |-> fs[f]]

\* os.walk never yields a directory that matches a rule, nor one beneath it
C3_PrunedBeforeDescent ==
    \A d \in Range(walked) : d \notin RuleDirs /\ ~BeneathRuleDir(d)

\* nothing of such a directory is in the structure or the analysis
C3_NothingRecorded ==
    /\ \A d \in TreeDirs :
          (d \in RuleDirs \/ BeneathRuleDir(d)) =>
              PathStr(d) \notin Range(scan_data.directories)
    /\ \A f \in DOMAIN fs :
          BeneathRuleDir(f) =>
              /\ f \notin Range(scan_data.analysed)
              /\ PathStr(f) \notin Range(scan_data.all_files)
              /\ \A k \in 1..Len(scan_data.file_analysis) :
                    scan_data.file_analysis[k].file # PathStr(f)
              /\ \A c \in DOMAIN scan_data.technology_indicators :
                    PathStr(f) \notin Range(scan_data.technology_indicators[c])

\* the totals and histograms are those of the tree without such directories
C3_NothingContributed ==
    pc = "done" =>
        summary = Summary(RunWalk(project_root, ignore_patterns, PrunedTree,
                                  SmallNameOrder, listing, WalkStart).scan_data)

\* C3: no file or directory beneath a directory that matches an ignore rule
\* is ever visited by the scan: the directory is pruned before descent, it
\* never appears in directories, and none of its files appears in
\* file_analysis or contributes to total_files, file_types,
\* technology_indicators or total_functions.
C3_IgnoredSubtreesNeverVisited ==
    /\ C3_PrunedBeforeDescent
    /\ C3_NothingRecorded
    /\ C3_NothingContributed

\* C4: a scan over an arbitrary source tree always completes and produces a
\* result: _analyze_code_file returns a record for every file content and
\* pattern set and no exception aborts the scan of generate_summary.
C4_ScanNeverAborts == pc # "failed"

\* the statistics of a summary that do not depend on the order of a list
Statistics(sm) ==
    [ total_functions |-> sm.code_analysis.total_functions,
      documented_functions |-> sm.code_analysis.documented_functions,
      language_breakdown |-> sm.code_analysis.language_breakdown,
      technology_indicators |->
          [c \in DOMAIN sm.project_structure.technology_indicators |->
              Range(sm.project_structure.technology_indicators[c])],
      by_directory |->
          Range(sm.code_analysis.missing_breadcrumbs_summary.by_directory) ]

\* C9: the final aggregated statistics of a scan (total_functions,
\* documented_functions, language_breakdown, technology_indicators and the
\* top-10 by_directory ranking) are the same for every order in which the same
\* set of files is visited: those of a scan that lists every directory
\* backwards are those of the scan that lists it forwards.
C9_StatisticsOrderIndependent ==
    pc = "done" =>
        Statistics(summary) =
        Statistics(Summary(RunWalk(project_root, ignore_patterns, fs,
                                   WideNameOrder, "forward",
                                   WalkStart).scan_data))

ByDirectory == summary.code_analysis.missing_breadcrumbs_summary.by_directory

\* C10: missing_breadcrumbs_summary.by_directory never holds more than 10
\* entries and its entries are ordered by missing count, non-increasing.
C10_ByDirectoryTop10Descending ==
    pc = "done" =>
        /\ Len(ByDirectory) <= 10
        /\ \A k \in 1..(Len(ByDirectory) - 1) :
              ByDirectory[k][2] >= ByDirectory[k + 1][2]

\* more than 10 directories have missing breadcrumbs, with different counts
C10_Witness ==
    /\ pc = "done"
    /\ Len(DirCounts(scan_data.missing_breadcrumbs)) > 10
    /\ Len(ByDirectory) = 10
    /\ ByDirectory[1][2] > ByDirectory[10][2]

C12_ComplexityScoreByFilesAndDeclarations ==
    pc = "done" =>
        LET files == summary.project_structure.total_files
            declarations == summary.code_analysis.total_functions
        IN  summary.performance_metrics.complexity_score =
                IF files > 100 \/ declarations > 500 THEN "high"
                ELSE IF files < 20 \/ declarations < 50 THEN "low"
                ELSE "medium"

\* the name with its extension in lower case
LowerExtension(name) ==
    SubSeq(name, 1, Len(name) - Len(Suffix(name))) \o Lower(Suffix(name))

\* the flat tree with every extension in lower case
LowerExtensionTree ==
    [p \in { << LowerExtension(q[1]) >> : q \in DOMAIN fs } |->
        fs[CHOOSE q \in DOMAIN fs : LowerExtension(q[1]) = p[1]]]

\* the scan of a flat tree, from its start to the summary
FlatSummary(tree) ==
    Summary(RunWalk(project_root, ignore_patterns, tree, FlatNameOrder,
                    listing, WalkStart).scan_data)

\* C13: language classification does not depend on the letter case of the
\* extension: a file contributes to the scan totals the declarations that the
\* file of the same content with the extension in lower case contributes
\* (b.PY as b.py).
C13_ExtensionCaseInsensitive ==
    pc = "done" =>
        LET lower == FlatSummary(LowerExtensionTree).code_analysis
        IN  /\ summary.code_analysis.total_functions = lower.total_functions
            /\ summary.code_analysis.documented_functions
                 = lower.documented_functions
            /\ summary.code_analysis.total_files_analyzed
                 = lower.total_files_analyzed

\* C14: a file whose extension is not in the extension-to-language table is
\* not skipped by the scan: _analyze_code_file is called for it, it is
\* analysed with the javascript patterns and its declarations are counted.
C14_UnmappedExtensionAnalysed ==
    pc = "done" =>
        \A f \in DOMAIN fs :
            LET ext == Lower(Suffix(f[Len(f)]))
                found == AnalyzeLines(ext, fs[f].lines).functions
            IN  (ext \notin DOMAIN lang_map /\ fs[f].readable) =>
                    /\ PatternsFor(ext) = function_patterns.javascript
                    /\ f \in Range(scan_data.analysed)
                    /\ found # << >> =>
                          \E k \in 1..Len(scan_data.file_analysis) :
                              /\ scan_data.file_analysis[k].file = PathStr(f)
                              /\ scan_data.file_analysis[k].function_count
                                   = Len(found)

\* the tree without the files that cannot be opened
OpenableTree == [f \in { g \in DOMAIN fs : fs[g].readable } |-> fs[f]]

\* C15: a file that cannot be opened counts as a file without declarations:
\* total_functions, documented_functions, language_breakdown and
\* file_analysis are those of the tree without it, the scan is not aborted and
\* every other file of the tree is still processed.
C15_UnopenableFileCountsNothing ==
    /\ pc # "failed"
    /\ pc = "done" =>
          LET without == RunWalk(project_root, ignore_patterns, OpenableTree,
                                 FlatNameOrder, listing, WalkStart).scan_data
          IN  /\ scan_data.total_functions = without.total_functions
              /\ scan_data.documented_functions = without.documented_functions
              /\ scan_data.language_breakdown = without.language_breakdown
              /\ scan_data.file_analysis = without.file_analysis
              /\ summary.code_analysis = Summary(without).code_analysis
              /\ \A f \in DOMAIN fs :
                    PathStr(f) \in Range(scan_data.all_files)

\* a.py cannot be opened and is listed first, d.py after it was analysed
C15_Witness ==
    /\ pc = "done"
    /\ listing = "forward"
    /\ << "a.py" >> \in DOMAIN fs
    /\ ~fs[<< "a.py" >>].readable
    /\ << "d.py" >> \in Range(scan_data.analysed)
    /\ scan_data.all_files[1] = "a.py"
    /\ scan_data.total_functions = 1

\* C16: whatever happens while .scanignore is loaded (the file is absent,
\* cannot be opened, or fails part-way through the reading), the load
\* completes and the rule set holds every built-in default pattern (with
\* the Arkival names as well in subdirectory mode).
C16_DefaultsSurviveIgnoreFileFailure ==
    pc = "loaded" =>
        /\ default_ignores \subseteq ignore_patterns
        /\ deployment_mode = "subdirectory"
              => arkival_ignores \subseteq ignore_patterns

\* the file failed after its first line was read, and the defaults are there
C16_Witness ==
    /\ pc = "loaded"
    /\ scan_ignore.exists /\ scan_ignore.readable
    /\ scan_ignore.read = 1
    /\ scan_ignore.lines = << "gen/", "src/gen", "*.cpp" >>
    /\ "gen" \in ignore_patterns
    /\ "*.cpp" \notin ignore_patterns
    /\ ".git" \in ignore_patterns

\* the lines of .scanignore that the load got to read: all of them unless
\* the file could not be opened or the reading failed
C17_LinesLoaded ==
    IF ~scan_ignore.exists \/ ~scan_ignore.readable THEN {}
    ELSE { scan_ignore.lines[k] : k \in 1..scan_ignore.read }

\* C17: the loaded rule set is exactly the built-in defaults (of the
\* deployment mode) together with the lines of .scanignore that, stripped,
\* are non-empty and do not start with '#', each without its trailing '/';
\* blank lines and comment lines add no rule.  A file whose reading fails
\* gives the rules of the lines before the failure.
C17_RuleSetIsDefaultsAndFileLines ==
    pc = "loaded" =>
        \A rule \in ignore_patterns \cup default_ignores \cup arkival_ignores
                      \cup { RStripSlash(Strip(l)) : l \in C17_LinesLoaded } :
            rule \in ignore_patterns
              <=> \/ rule \in default_ignores
                  \/ /\ deployment_mode = "subdirectory"
                     /\ rule \in arkival_ignores
                  \/ \E l \in C17_LinesLoaded :
                        /\ Strip(l) # ""
                        /\ ~StartsWith(Strip(l), "#")
                        /\ rule = RStripSlash(Strip(l))

\* the whole of ScanIgnoreLines was read: a comment, a blank line, a line
\* with blanks around it and a line with a trailing '/'
C17_Witness ==
    /\ pc = "loaded"
    /\ scan_ignore = IgnoreFileOf(ScanIgnoreLines)
    /\ ignore_patterns \ (default_ignores \cup arkival_ignores)
         = { "gen", "src/gen", "*.cpp", "g?n", "!src" }

\* python file a.py holds `def foo():` right below a breadcrumb comment,
\* python file d.py holds an undocumented `def bar():`
TwoFileTree ==
    ( << "a.py" >> :> FileOf(<< "# @codebase-summary: doc", "def foo():" >>) )
    @@ ( << "d.py" >> :> FileOf(<< "def bar():" >>) )

\* C18: the scan of the two-file tree yields total_functions = 2,
\* documented_functions = 1, missing_count = 1 and coverage_percentage = 50.0,
\* and bar is in the missing list of the second file.
C18_TwoFileScenario ==
    (pc = "done" /\ fs = TwoFileTree) =>
        /\ summary.code_analysis.total_functions = 2
        /\ summary.code_analysis.documented_functions = 1
        /\ summary.code_analysis.missing_count = 1
        /\ summary.code_analysis.coverage_percentage = 5000
        /\ missing_data.summary.coverage_percentage = 5000
        /\ \E k \in 1..Len(scan_data.missing_breadcrumbs) :
              /\ scan_data.missing_breadcrumbs[k].file = "d.py"
              /\ "bar" \in Range(scan_data.missing_breadcrumbs[k].missing)

\* the two-file tree was scanned, both files were analysed
C18_Witness ==
    /\ pc = "done"
    /\ fs = TwoFileTree
    /\ Range(scan_data.analysed) = { << "a.py" >>, << "d.py" >> }
    /\ summary.written

\* C19: the scan of an empty tree raises no error and yields total_files = 0,
\* total_functions = 0 and coverage_percentage = 0.0.
C19_EmptyTree ==
    (DOMAIN fs = {}) =>
        /\ pc # "failed"
        /\ pc = "done" =>
              /\ summary.project_structure.total_files = 0
              /\ summary.code_analysis.total_functions = 0
              /\ summary.code_analysis.coverage_percentage = 0
              /\ missing_data.summary.coverage_percentage = 0

\* the empty tree was scanned: the root was yielded, the summary is written
C19_Witness ==
    /\ pc = "done"
    /\ DOMAIN fs = {}
    /\ walked = << << >> >>
    /\ summary.written
    /\ scan_data.all_files = << >>

\* the size above which the analyzer is to skip a file, "several MB"
SizeThreshold == 5 * 1024 * 1024

\* C20: a file whose size exceeds the size threshold is skipped by the
\* analyzer: it is never read and contributes no declaration.
C20_OversizedFileSkipped ==
    pc = "done" =>
        \A f \in DOMAIN fs :
            ("size" \in DOMAIN fs[f] /\ fs[f].size > SizeThreshold) =>
                /\ \A k \in 1..Len(scan_data.file_analysis) :
                      scan_data.file_analysis[k].file # PathStr(f)
                /\ summary.code_analysis.total_functions
                     = FlatSummary([g \in DOMAIN fs \ { f } |-> fs[g]])
                           .code_analysis.total_functions

\* C21: every pattern of every language of the catalog has exactly one
\* capture group, and each match of a pattern of the analysed file's language
\* on a line of the file yields one identifier (a tuple of one group).
C21_OneCaptureGroupPerPattern ==
    /\ \A lang \in DOMAIN function_patterns :
          \A k \in 1..Len(function_patterns[lang]) :
              CaptureGroups(function_patterns[lang][k]) = 1
    /\ file.readable =>
          LET patterns == PatternsFor(Lower(Suffix(file_path[Len(file_path)])))
          IN  \A k \in 1..Len(patterns), i \in 1..Len(file.lines) :
                  \A n \in 1..Len(ReFindall(patterns[k], file.lines[i])) :
                      Len(ReFindall(patterns[k], file.lines[i])[n]) = 1

\* C22: matches are not deduplicated within a line: a line matched by k
\* patterns of the language adds k declarations to function_count (the line
\* `async def g():` is matched by both python def patterns and adds 2), and
\* all k are documented or all k are missing, by the window check of the line.
C22_MatchesNotDeduplicated ==
    (pc = "returned" /\ file.readable) =>
        LET n == Len(file.lines)
            all == [k \in 1..n |-> DeclarationsOnLine(k - 1)]
            doc == [k \in 1..n |->
                      IF all[k] > 0 /\ BreadcrumbFound(file.lines, k - 1)
                      THEN all[k] ELSE 0]
        IN  /\ analysis.function_count = SumTo(all, n)
            /\ analysis.documented_count = SumTo(doc, n)
            /\ Len(analysis.missing_breadcrumbs)
                 = SumTo(all, n) - SumTo(doc, n)
            /\ \A k \in 1..n :
                  file.lines[k] = "async def g():"
                      /\ AnalyzedExt = ".py" => all[k] = 2

\* a python file whose only declaration line is `async def g():`: two
\* declarations g are recorded, both missing
C22_Witness ==
    /\ pc = "returned"
    /\ file.readable
    /\ AnalyzedExt = ".py"
    /\ \E i \in 1..Len(file.lines) :
          /\ file.lines[i] = "async def g():"
          /\ \A k \in 1..Len(file.lines) : k # i => file.lines[k] = Filler
    /\ functions = << "g", "g" >>
    /\ analysis.function_count = 2
    /\ analysis.missing_breadcrumbs = << "g", "g" >>

\* _analyze_code_file's result for the k-th file the scan analysed
C23_AnalysisOf(k) ==
    AnalyzeCodeFile(project_root, project_root \o scan_data.analysed[k],
                    fs[scan_data.analysed[k]])

\* C23: after a scan, total_functions is the sum of function_count and
\* documented_functions the sum of documented_count over the analysed files,
\* and missing_count (total_functions - documented_functions) is the number
\* of identifiers in all the missing_breadcrumbs lists.
C23_TotalsAreStraightSums ==
    pc = "done" =>
        LET n == Len(scan_data.analysed)
            m == Len(scan_data.missing_breadcrumbs)
            fc == [k \in 1..n |-> C23_AnalysisOf(k).function_count]
            dc == [k \in 1..n |-> C23_AnalysisOf(k).documented_count]
            ms == [k \in 1..m |-> Len(scan_data.missing_breadcrumbs[k].missing)]
        IN  /\ summary.code_analysis.total_functions = SumTo(fc, n)
            /\ summary.code_analysis.documented_functions = SumTo(dc, n)
            /\ summary.code_analysis.missing_count
                 = summary.code_analysis.total_functions
                     - summary.code_analysis.documented_functions
            /\ summary.code_analysis.missing_count = SumTo(ms, m)
            /\ missing_data.summary.total_functions = SumTo(fc, n)
            /\ missing_data.summary.missing_count = SumTo(ms, m)

\* a scan of three analysed files: one without a declaration, one with a
\* documented declaration, one with two missing declarations of one line
C23_Witness ==
    /\ pc = "done"
    /\ Len(scan_data.analysed) >= 3
    /\ \E k \in 1..Len(scan_data.analysed) :
          C23_AnalysisOf(k).function_count = 0
    /\ \E k \in 1..Len(scan_data.analysed) :
          C23_AnalysisOf(k).documented_count = 1
    /\ \E k \in 1..Len(scan_data.missing_breadcrumbs) :
          Len(scan_data.missing_breadcrumbs[k].missing) = 2
    /\ summary.code_analysis.total_functions = 3
    /\ summary.code_analysis.missing_count = 2

\* the files of the tree that are not ignored: neither the file nor a
\* directory above it, the scan root included, matches an ignore rule
C24_NonIgnoredFiles ==
    { f \in DOMAIN fs :
        \A n \in 0..Len(f) :
            ~ShouldIgnorePath(project_root, ignore_patterns,
                              project_root \o SubSeq(f, 1, n)) }

\* no element occurs twice in the list
C24_NoDuplicates(seq) ==
    \A i, j \in 1..Len(seq) : seq[i] = seq[j] => i = j

\* the sum of the values a dict has for the given keys
RECURSIVE C24_SumOver(_, _)
C24_SumOver(d, keys) ==
    IF keys = {} THEN 0
    ELSE LET k == CHOOSE x \in keys : TRUE
         IN  d[k] + C24_SumOver(d, keys \ { k })

\* C24: the scan is one traversal that handles every non-ignored file exactly
\* once: at the end total_files is the number of non-ignored files of the
\* tree and the sum of the file_types counts, and no file is counted or
\* analysed twice.
C24_EveryNonIgnoredFileOnce ==
    pc = "done" =>
        LET types == summary.project_structure.file_types
        IN  /\ summary.project_structure.total_files
                 = Cardinality(C24_NonIgnoredFiles)
            /\ summary.project_structure.total_files
                 = C24_SumOver(types, DOMAIN types)
            /\ C24_NoDuplicates(scan_data.all_files)
            /\ C24_NoDuplicates(scan_data.analysed)

\* the same with a file called non-ignored when the ignore test of the file
\* itself is false
C24_CountsFilesNotIgnoredThemselves ==
    pc = "done" =>
        summary.project_structure.total_files
            = Cardinality({ f \in DOMAIN fs :
                ~ShouldIgnorePath(project_root, ignore_patterns,
                                  project_root \o f) })

\* the parts of C24 that do not depend on which files are ignored
C24_CountedOnce ==
    pc = "done" =>
        /\ summary.project_structure.total_files
             = C24_SumOver(summary.project_structure.file_types,
                           DOMAIN summary.project_structure.file_types)
        /\ summary.project_structure.total_files = Len(scan_data.all_files)
        /\ C24_NoDuplicates(scan_data.all_files)
        /\ C24_NoDuplicates(scan_data.analysed)

\* what the scan of the same tree with the same rules yields under the root
C28_ScanUnder(root) ==
    RunWalk(root, ignore_patterns, fs, SmallNameOrder, listing, WalkStart)
        .scan_data

\* C28: the ignore decision depends only on the path relative to the scan
\* root and on the rule set: the names of the directories above the scan root
\* ignore nothing, so the same tree yields the same scan result wherever the
\* root is located (below a directory named build as well).
C28_ResultIndependentOfRootLocation ==
    pc \in { "done", "failed" } =>
        \A root \in ProjectRoots :
            /\ C28_ScanUnder(root).raised <=> pc = "failed"
            /\ pc = "done" => summary = Summary(C28_ScanUnder(root))

\* the categories in the order of the branches
C30_Categories ==
    << "backend", "frontend", "ai_integration", "database", "deployment",
       "documentation" >>

\* the test of the k-th branch on a file name
C30_BranchMatches(k, name) ==
    CASE k = 1 -> Suffix(name) \in { ".py", ".java", ".go", ".rs" }
      [] k = 2 -> Suffix(name) \in { ".js", ".jsx", ".ts", ".tsx", ".vue" }
      [] k = 3 -> \E t \in ai_terms : StrContains(Lower(name), t)
      [] k = 4 -> Suffix(name) \in { ".sql", ".db" }
      [] k = 5 -> Lower(name) \in { "dockerfile", ".replit",
                                    "docker-compose.yml" }
      [] k = 6 -> \/ Suffix(name) \in { ".md", ".txt" }
                  \/ StrContains(Lower(name), "doc")

\* C30: after a scan, every counted file is in at most one category of
\* technology_indicators, the one of the first branch that matches it (of
\* backend, frontend, ai_integration, database, deployment, documentation),
\* and every category list holds at most 20 paths.
C30_OneCategoryAtMost20 ==
    pc = "done" =>
        LET tech == summary.project_structure.technology_indicators
        IN  /\ DOMAIN tech = Range(C30_Categories)
            /\ \A k \in 1..6 :
                  /\ Len(tech[C30_Categories[k]]) <= 20
                  /\ \A i, j \in 1..Len(tech[C30_Categories[k]]) :
                        tech[C30_Categories[k]][i] = tech[C30_Categories[k]][j]
                            => i = j
                  /\ \A name \in Range(tech[C30_Categories[k]]) :
                        /\ name \in Range(scan_data.all_files)
                        /\ C30_BranchMatches(k, name)
                        /\ \A j \in 1..(k - 1) : ~C30_BranchMatches(j, name)
                        /\ \A j \in 1..6 :
                              j # k => name \notin Range(tech[C30_Categories[j]])

\* 21 files model<k>.py were counted, each matched by the backend and by the
\* AI branch: 20 of them are in backend, none in ai_integration, and
\* gpt1.md is in ai_integration and not in documentation
C30_Witness ==
    /\ pc = "done"
    /\ Cardinality({ k \in 1..Len(scan_data.all_files) :
                       StartsWith(scan_data.all_files[k], "model") }) = 21
    /\ Len(summary.project_structure.technology_indicators.backend) = 20
    /\ summary.project_structure.technology_indicators.ai_integration
         = << "gpt1.md" >>
    /\ summary.project_structure.technology_indicators.documentation = << >>
    /\ "doc1.sql" \in
         Range(summary.project_structure.technology_indicators.database)


\* ---------------------------------------------------------------------------
\* generate_summary and the history directory: the summary of the run before
\* is archived, the history is cleaned up, and the new summary is written.
\* A history file is [version, stamp, mtime]: its name is
\* codebase_summary_v<version>_<stamp>.json, and copy2 gives it the
\* modification time of the summary it copies.
\* ---------------------------------------------------------------------------

\* generate_summary runs of one behaviour
MaxRuns == 8

\* the number of history files _cleanup_history_files keeps
KeepCount == 6

\* _get_current_version: the version in the summary on disk, 1.1.0 (patch 0)
\* when there is none
GetCurrentVersion(sf) == IF sf.exists THEN sf.version ELSE 0

\* _increment_version: the patch number plus one
IncrementVersion(current_version) == current_version + 1

\* shutil.copy2(summary_path, archive_path): a file of that name is replaced
Copy2(sf, files, current_version, timestamp) ==
    { f \in files : ~ (f.version = current_version /\ f.stamp = timestamp) }
    \cup { [version |-> current_version, stamp |-> timestamp,
            mtime |-> sf.mtime] }

\* history_files.sort(key=st_mtime, reverse=True)[:6] with the oldest files
\* kept instead
NewestFirst_OldestKept(files, n) ==
    { K \in SUBSET files :
        /\ Cardinality(K) = n
        /\ \A k \in K : \A r \in files \ K : k.mtime <= r.mtime }

\* history_files.sort(key=st_mtime, reverse=True)[:n]: the sets the first n
\* files of the sorted list can be (files of one mtime come in glob's order)
NewestFirst(files, n) ==
    { K \in SUBSET files :
        /\ Cardinality(K) = n
        /\ \A k \in K : \A r \in files \ K : k.mtime >= r.mtime }

\* _cleanup_history_files: the sets of files it can remove. completes = FALSE
\* is an exception part-way (glob, stat or unlink failed): the files unlinked
\* before it are a start of history_files[6:], possibly none.
CleanupHistoryFiles(files, completes) ==
    IF Cardinality(files) > KeepCount
    THEN LET old == { files \ K : K \in NewestFirst(files, KeepCount) }
         IN  IF completes
             THEN old
             ELSE UNION { { R \in SUBSET o :
                              /\ R # o
                              /\ \A r \in R : \A s \in o \ R :
                                     r.mtime >= s.mtime } : o \in old }
    ELSE { {} }

\* _archive_previous_version: the outcomes [history_files, archive, removed]
ArchivePreviousVersion(sf, files, current_version, timestamp) ==
    IF ~ sf.exists
    THEN { [history_files |-> files, archive |-> "none", removed |-> {}] }
    ELSE LET copied == Copy2(sf, files, current_version, timestamp)
         IN  { [history_files |-> files, archive |-> "copy failed",
                removed |-> {}] }
             \cup { [history_files |-> copied \ R, archive |-> "ok",
                     removed |-> R] :
                        R \in CleanupHistoryFiles(copied, TRUE) }
             \cup { [history_files |-> copied \ R,
                     archive |-> "cleanup failed", removed |-> R] :
                        R \in CleanupHistoryFiles(copied, FALSE) }

InitHistory ==
    /\ pc = "history"
    /\ deployment_mode = "development"
    /\ scan_ignore = NoIgnoreFile
    /\ project_root = << "work" >>
    /\ ignore_patterns = LoadIgnorePatterns(deployment_mode, scan_ignore)
    /\ debug_count = 0
    /\ AnalyzeIdle
    /\ IgnoreIdle
    /\ ScanIdle
    /\ HistoryIdle
    /\ BridgeIdle

\* one generate_summary run, seen from the history directory. passed is the
\* time since the run before, in seconds; written is whether the scan and the
\* write of the new summary went through (generate_summary returns False and
\* leaves the old summary otherwise).
GenerateSummary ==
    /\ pc = "history"
    /\ last_archive.runs < MaxRuns
    /\ \E passed \in { 0, 1 } : \E written \in BOOLEAN :
         LET current_version == GetCurrentVersion(summary_file)
             new_version == IncrementVersion(current_version)
         IN  /\ now' = now + passed
             /\ \E a \in ArchivePreviousVersion(summary_file, history_files,
                                                current_version, now') :
                  /\ history_files' = a.history_files
                  /\ last_archive' = [archive |-> a.archive,
                                      removed |-> a.removed,
                                      runs |-> last_archive.runs + 1]
             /\ summary_file' =
                  IF written
                  THEN [exists |-> TRUE, version |-> new_version,
                        mtime |-> now']
                  ELSE summary_file
    /\ UNCHANGED << pc, deployment_mode, scan_ignore, project_root,
                    ignore_patterns, debug_count, analyzeVars, ignoreVars,
                    scanVars, bridgeVars >>

NextHistory == GenerateSummary

SpecHistory == InitHistory /\ [][NextHistory]_vars

\* C27: after a generate_summary run whose archiving succeeded (the copy and
\* the cleanup went through), the history directory holds at most 6
\* codebase_summary_v*.json files, and no file the cleanup removed is newer
\* than a file it kept.
C27_HistoryKeepsSixNewest ==
    (pc = "history" /\ last_archive.archive = "ok") =>
        /\ Cardinality(history_files) <= KeepCount
        /\ \A r \in last_archive.removed : \A k \in history_files :
               r.mtime <= k.mtime
        /\ last_archive.removed \cap history_files = {}

\* a seventh archive arrived and the cleanup removed one of two files of the
\* same age
C27_Witness ==
    /\ pc = "history"
    /\ last_archive.archive = "ok"
    /\ Cardinality(history_files) = KeepCount
    /\ last_archive.removed # {}
    /\ \E r \in last_archive.removed : \E k \in history_files :
           r.mtime = k.mtime


\* ---------------------------------------------------------------------------
\* ClaudeBridge: send_message calls of one bridge, run by the caller or by the
\* worker threads of its executor (send_message_async, batch_send_async). A
\* thread takes one step per statement that reads or writes the bridge's
\* shared fields or reads the clock; the clock ticks between steps.
\* ---------------------------------------------------------------------------

\* send_message calls of one behaviour
MaxSends == 2


\* what __init__ reads from the environment (defaults 1.0, 10000, 15, 300, 3)
BridgeConfig ==
    [min_request_interval |-> 1, max_message_length |-> 4,
     default_timeout |-> 15, cache_ttl |-> 2, max_workers |-> 2]

Threads == 1..BridgeConfig.max_workers

\* seconds the clock advances in one behaviour: enough for a cache entry to
\* expire
MaxTime == BridgeConfig.cache_ttl

\* the message arguments: text is the string, is_str is FALSE for an object
\* that is no string
Messages ==
    { [is_str |-> FALSE, text |-> ""],
      [is_str |-> TRUE, text |-> ""],
      [is_str |-> TRUE, text |-> "  "],
      [is_str |-> TRUE, text |-> "hi"],
      [is_str |-> TRUE, text |-> " hi"],
      [is_str |-> TRUE, text |-> "yo"],
      [is_str |-> TRUE, text |-> "hello"],
      [is_str |-> TRUE, text |-> "  hi " ] }

\* what the CLI prints
Responses == { "pong ", "ok" }

\* an exception: its class and str(e)
Raised(type, text) == [type |-> type, text |-> text]

\* _validate_message: the stripped message, or the ValueError it raises
ValidateMessage(message, max_message_length) ==
    IF ~ message.is_str
    THEN [raises |-> TRUE, validated |-> "",
          text |-> "Message must be a string"]
    ELSE IF Len(Strip(message.text)) = 0
    THEN [raises |-> TRUE, validated |-> "",
          text |-> "Message cannot be empty"]
    ELSE IF Len(message.text) > max_message_length
    THEN [raises |-> TRUE, validated |-> "",
          text |-> "Message exceeds maximum length"]
    ELSE [raises |-> FALSE, validated |-> Strip(message.text), text |-> ""]

\* _get_cache_key: the SHA-256 digest of the message, one key per message
GetCacheKey(message) == message

\* _is_cache_valid with a test that always passes
IsCacheValid_Always(entry, current_time, cache_ttl) == TRUE

\* _is_cache_valid
IsCacheValid(entry, current_time, cache_ttl) ==
    current_time - entry.timestamp < cache_ttl

\* the dict of a failed call
Failure(error) ==
    [success |-> FALSE, error |-> error, method |-> "direct_cli"]

\* the except clauses of send_message without the last one
Handle_NoCatchAll(e) ==
    CASE e.type = "ValueError" ->
             Failure("Input validation error: " \o e.text)
      [] e.type = "TimeoutExpired" -> Failure("Command timed out")
      [] e.type = "FileNotFoundError" -> Failure("Claude CLI not found")
      [] e.type = "PermissionError" ->
             Failure("Permission denied accessing Claude CLI")
      [] OTHER -> [raised |-> e.type]

\* the except clauses of send_message: what the call returns for an exception
\* raised in its try block
Handle(e) ==
    CASE e.type = "ValueError" ->
             Failure("Input validation error: " \o e.text)
      [] e.type = "TimeoutExpired" -> Failure("Command timed out")
      [] e.type = "FileNotFoundError" -> Failure("Claude CLI not found")
      [] e.type = "PermissionError" ->
             Failure("Permission denied accessing Claude CLI")
      [] OTHER -> Failure(e.text)

\* the response_data dict of a successful call
ResponseData(response) ==
    [success |-> TRUE, response |-> response, method |-> "direct_cli",
     cached |-> FALSE]

\* a thread that runs no send_message call. pc is "idle" or the statement the
\* call is at; ran and limited are whether the call started the CLI and wrote
\* _last_request_time; call is the index of its CLI call in cli_calls.
IdleThread ==
    [pc |-> "idle", validated |-> "", sleep_until |-> 0, response |-> "",
     expired |-> {}, ran |-> FALSE, limited |-> FALSE, call |-> 0]

\* sent before the first call: count is the number of calls made, last is the
\* call that returned last
NoneSent == [count |-> 0, last |-> << >>]

InitBridge ==
    /\ pc = "bridge"
    /\ deployment_mode = "development"
    /\ scan_ignore = NoIgnoreFile
    /\ project_root = << "work" >>
    /\ ignore_patterns = LoadIgnorePatterns(deployment_mode, scan_ignore)
    /\ debug_count = 0
    /\ AnalyzeIdle
    /\ IgnoreIdle
    /\ ScanIdle
    /\ now = Epoch
    /\ summary_file = NoSummaryFile
    /\ history_files = {}
    /\ last_archive = NoArchive
    /\ config = BridgeConfig
    /\ last_request_time = 0
    /\ cache = << >>
    /\ threads = [t \in Threads |-> IdleThread]
    /\ cli_calls = << >>
    /\ sent = NoneSent

BridgeRest ==
    UNCHANGED << pc, deployment_mode, scan_ignore, project_root,
                 ignore_patterns, debug_count, analyzeVars, ignoreVars,
                 scanVars, historyVars >>

\* thread th goes on to the given statement
Goto(th, step) == [th EXCEPT !.pc = step]

\* the call of thread t, in state th, returns result (or raises, when the
\* except clauses let the exception through); cause is what ended it
Return(t, th, cause, result) ==
    [count |-> sent.count,
     last |-> [thread |-> t, validated |-> th.validated, cause |-> cause,
               result |-> result, ran |-> th.ran, limited |-> th.limited]]

\* the clock
Tick ==
    /\ pc = "bridge"
    /\ now < Epoch + MaxTime
    /\ now' = now + 1
    /\ UNCHANGED bridgeVars
    /\ BridgeRest

\* send_message(message) is called on thread t:
\* validated_message = self._validate_message(message)
SendMessage(t) ==
    /\ pc = "bridge"
    /\ threads[t].pc = "idle"
    /\ sent.count < MaxSends
    /\ \E message \in Messages :
         LET v == ValidateMessage(message, config.max_message_length)
             called == [sent EXCEPT !.count = @ + 1]
         IN  IF v.raises
             THEN /\ sent' = [Return(t, IdleThread, v.text,
                                     Handle(Raised("ValueError", v.text)))
                                 EXCEPT !.count = called.count]
                  /\ UNCHANGED threads
             ELSE /\ sent' = called
                  /\ threads' = [threads EXCEPT ![t] =
                        [IdleThread EXCEPT !.pc = "cache_in",
                                           !.validated = v.validated]]
    /\ UNCHANGED << now, config, last_request_time, cache, cli_calls >>
    /\ BridgeRest

\* _get_cached_response: if cache_key in self._cache
CacheIn(t) ==
    /\ pc = "bridge"
    /\ threads[t].pc = "cache_in"
    /\ threads' = [threads EXCEPT ![t] =
          IF GetCacheKey(threads[t].validated) \in DOMAIN cache
          THEN Goto(@, "cache_get")
          ELSE Goto(@, "rate_read")]
    /\ UNCHANGED << now, config, last_request_time, cache, cli_calls, sent >>
    /\ BridgeRest

\* _get_cached_response: entry = self._cache[cache_key] (a KeyError when
\* another thread's cleanup deleted the key meanwhile), the validity test and
\* the return of the cached response
CacheGet(t) ==
    /\ pc = "bridge"
    /\ threads[t].pc = "cache_get"
    /\ LET cache_key == GetCacheKey(threads[t].validated)
           back == [threads EXCEPT ![t] = IdleThread]
       IN  IF cache_key \notin DOMAIN cache
           THEN /\ sent' = Return(t, threads[t], "KeyError",
                                  Handle(Raised("KeyError", cache_key)))
                /\ threads' = back
           ELSE IF IsCacheValid(cache[cache_key], now, config.cache_ttl)
           THEN /\ sent' = Return(t, threads[t], "cached",
                       [success |-> TRUE,
                        response |-> cache[cache_key].response.response,
                        method |-> "cached", cached |-> TRUE])
                /\ threads' = back
           ELSE /\ threads' = [threads EXCEPT ![t] = Goto(@, "rate_read")]
                /\ UNCHANGED sent
    /\ UNCHANGED << now, config, last_request_time, cache, cli_calls >>
    /\ BridgeRest

\* _rate_limit: current_time = time.time() and the test of the interval
RateRead(t) ==
    /\ pc = "bridge"
    /\ threads[t].pc = "rate_read"
    /\ LET current_time == now
           time_since_last == current_time - last_request_time
       IN  threads' = [threads EXCEPT ![t] =
              IF time_since_last < config.min_request_interval
              THEN [Goto(@, "rate_write") EXCEPT !.sleep_until =
                       now + (config.min_request_interval - time_since_last)]
              ELSE Goto(@, "rate_write")]
    /\ UNCHANGED << now, config, last_request_time, cache, cli_calls, sent >>
    /\ BridgeRest

\* _rate_limit: time.sleep(sleep_time) is over, if there was one, and
\* self._last_request_time = time.time()
RateWrite(t) ==
    /\ pc = "bridge"
    /\ threads[t].pc = "rate_write"
    /\ now >= threads[t].sleep_until
    /\ last_request_time' = now
    /\ threads' = [threads EXCEPT ![t] =
                      [Goto(@, "run") EXCEPT !.limited = TRUE]]
    /\ UNCHANGED << now, config, cache, cli_calls, sent >>
    /\ BridgeRest

\* subprocess.run(['claude', '--print', validated_message]) starts the CLI, or
\* fails to (no executable, no permission, another OSError)
Run(t) ==
    /\ pc = "bridge"
    /\ threads[t].pc = "run"
    /\ \/ /\ cli_calls' = Append(cli_calls,
                              [start |-> now, outcome |-> "running"])
          /\ threads' = [threads EXCEPT ![t] =
                [Goto(@, "running") EXCEPT !.ran = TRUE,
                                           !.call = Len(cli_calls) + 1]]
          /\ UNCHANGED sent
       \/ /\ \E type \in { "FileNotFoundError", "PermissionError",
                           "OSError" } :
                sent' = Return(t, threads[t], type,
                               Handle(Raised(type, "no claude")))
          /\ threads' = [threads EXCEPT ![t] = IdleThread]
          /\ UNCHANGED cli_calls
    /\ UNCHANGED << now, config, last_request_time, cache >>
    /\ BridgeRest

\* subprocess.run returns (exit status 0 or not) or raises TimeoutExpired
SubprocessReturns(t) ==
    /\ pc = "bridge"
    /\ threads[t].pc = "running"
    /\ LET i == threads[t].call
       IN  \/ /\ \E stdout \in Responses :
                   threads' = [threads EXCEPT ![t] =
                      [Goto(@, "store") EXCEPT !.response = Strip(stdout)]]
              /\ cli_calls' = [cli_calls EXCEPT ![i].outcome = "ok"]
              /\ UNCHANGED sent
           \/ /\ cli_calls' = [cli_calls EXCEPT ![i].outcome = "nonzero"]
              /\ sent' = Return(t, threads[t], "nonzero", Failure("stderr"))
              /\ threads' = [threads EXCEPT ![t] = IdleThread]
           \/ /\ cli_calls' = [cli_calls EXCEPT ![i].outcome = "timeout"]
              /\ sent' = Return(t, threads[t], "TimeoutExpired",
                         Handle(Raised("TimeoutExpired", "timed out")))
              /\ threads' = [threads EXCEPT ![t] = IdleThread]
    /\ UNCHANGED << now, config, last_request_time, cache >>
    /\ BridgeRest

\* _cache_response: self._cache[cache_key] = {response, timestamp}
Store(t) ==
    /\ pc = "bridge"
    /\ threads[t].pc = "store"
    /\ cache' = ( GetCacheKey(threads[t].validated) :>
                    [response |-> ResponseData(threads[t].response),
                     timestamp |-> now] ) @@ cache
    /\ threads' = [threads EXCEPT ![t] = Goto(@, "cleanup")]
    /\ UNCHANGED << now, config, last_request_time, cli_calls, sent >>
    /\ BridgeRest

\* _cleanup_cache: the list of the expired keys
Cleanup(t) ==
    /\ pc = "bridge"
    /\ threads[t].pc = "cleanup"
    /\ LET current_time == now
       IN  threads' = [threads EXCEPT ![t] =
              [Goto(@, "delete") EXCEPT !.expired =
                  { key \in DOMAIN cache :
                      current_time - cache[key].timestamp
                          >= config.cache_ttl }]]
    /\ UNCHANGED << now, config, last_request_time, cache, cli_calls, sent >>
    /\ BridgeRest

\* _cleanup_cache: del self._cache[key] for the next expired key (a KeyError
\* when another thread deleted it meanwhile), and the return of response_data
\* after the last
Delete(t) ==
    /\ pc = "bridge"
    /\ threads[t].pc = "delete"
    /\ IF threads[t].expired = {}
       THEN /\ sent' = Return(t, threads[t], "ok",
                              ResponseData(threads[t].response))
            /\ threads' = [threads EXCEPT ![t] = IdleThread]
            /\ UNCHANGED cache
       ELSE \E key \in threads[t].expired :
              IF key \in DOMAIN cache
              THEN /\ cache' = [k \in DOMAIN cache \ { key } |-> cache[k]]
                   /\ threads' = [threads EXCEPT ![t].expired = @ \ { key }]
                   /\ UNCHANGED sent
              ELSE /\ sent' = Return(t, threads[t], "KeyError",
                                     Handle(Raised("KeyError", key)))
                   /\ threads' = [threads EXCEPT ![t] = IdleThread]
                   /\ UNCHANGED cache
    /\ UNCHANGED << now, config, last_request_time, cli_calls >>
    /\ BridgeRest

NextBridge ==
    \/ Tick
    \/ \E t \in Threads :
         \/ SendMessage(t)
         \/ CacheIn(t)
         \/ CacheGet(t)
         \/ RateRead(t)
         \/ RateWrite(t)
         \/ Run(t)
         \/ SubprocessReturns(t)
         \/ Store(t)
         \/ Cleanup(t)
         \/ Delete(t)

SpecBridge == InitBridge /\ [][NextBridge]_vars

\* C25: any two CLI invocations of one bridge start at least
\* _min_request_interval apart, also when they run on different threads.
C25_CallsAtLeastIntervalApart ==
    (pc = "bridge") =>
        \A i \in 1..Len(cli_calls) : \A j \in (i + 1)..Len(cli_calls) :
            cli_calls[j].start - cli_calls[i].start
                >= config.min_request_interval

\* C26: send_message returns a cached response only when the cache holds, for
\* the identical validated message, an entry less than _cache_ttl seconds old,
\* and such a return starts no CLI call and leaves _last_request_time and the
\* cache alone; an entry gets into the cache only by the call whose CLI run
\* for that message returned 0, with the time of the store - calls that
\* failed or timed out store nothing.
C26_HitOnlyFreshStoredBySuccess ==
    [][ /\ \A t \in Threads :
             ( /\ threads[t].pc = "cache_get"
               /\ threads'[t].pc = "idle"
               /\ sent'.last.cause = "cached" ) =>
                 LET cache_key == GetCacheKey(threads[t].validated)
                 IN  /\ cache_key \in DOMAIN cache
                     /\ cache[cache_key].timestamp <= now
                     /\ now - cache[cache_key].timestamp < config.cache_ttl
                     /\ sent'.last.result.success
                     /\ sent'.last.result.response =
                            cache[cache_key].response.response
                     /\ ~ sent'.last.ran
                     /\ ~ sent'.last.limited
                     /\ UNCHANGED << cli_calls, last_request_time, cache >>
        /\ \A k \in DOMAIN cache' :
             (k \notin DOMAIN cache \/ cache'[k] # cache[k]) =>
                 \E t \in Threads :
                     /\ threads[t].pc = "store"
                     /\ GetCacheKey(threads[t].validated) = k
                     /\ cli_calls[threads[t].call].outcome = "ok"
                     /\ cache'[k].timestamp = now
                     /\ cache'[k].response.success
                     /\ cache'[k].response.response = threads[t].response
      ]_vars

\* one CLI call answered "hi", and the second send of " hi" or "hi" was
\* answered from the cache
C26_Witness ==
    /\ pc = "bridge"
    /\ sent.count = 2
    /\ sent.last # << >>
    /\ sent.last.cause = "cached"
    /\ sent.last.validated = "hi"
    /\ sent.last.result.response = "pong"
    /\ Len(cli_calls) = 1
    /\ cli_calls[1].outcome = "ok"

\* C29: send_message never raises: whatever ends a call other than a CLI run
\* that returned 0 or a cache hit, the caller gets a dict with success False;
\* and a call whose message validation rejects starts no CLI call and leaves
\* the cache and _last_request_time as they were.
C29_NeverRaisesAndRejectsUntouched ==
    /\ [] ( (pc = "bridge" /\ sent.last # << >>) =>
              /\ "raised" \notin DOMAIN sent.last.result
              /\ sent.last.cause \notin { "ok", "cached" } =>
                     ~ sent.last.result.success )
    /\ [][ ( /\ pc = "bridge"
             /\ sent'.count = sent.count + 1
             /\ threads' = threads ) =>
                 /\ sent'.last.cause \in
                        { "Message must be a string",
                          "Message cannot be empty",
                          "Message exceeds maximum length" }
                 /\ ~ sent'.last.result.success
                 /\ ~ sent'.last.ran
                 /\ ~ sent'.last.limited
                 /\ UNCHANGED << cache, last_request_time, cli_calls >>
         ]_vars

\* after a call that was answered and cached, an over-long message was
\* rejected
C29_Witness ==
    /\ pc = "bridge"
    /\ sent.last # << >>
    /\ sent.last.cause = "Message exceeds maximum length"
    /\ ~ sent.last.result.success
    /\ DOMAIN cache = { "hi" }
    /\ last_request_time >= Epoch
    /\ Len(cli_calls) = 1

====
